---- MODULE Spec2Model ----
(***************************************************************************)
(* A model of the Property Recommendation System: the price predictor,    *)
(* the property generator, the scoring service, the recommendation        *)
(* service and the Flask routes built on them.                            *)
(*                                                                         *)
(* Numbers.  Python floats are modelled by exact rationals:               *)
(*   - a predicted price is an integer number of cents once it has been   *)
(*     rounded by generate_properties, and an integer number of mills     *)
(*     (1/1000 dollar) as it leaves PricePredictor.predict;               *)
(*   - a budget is a whole number of dollars;                             *)
(*   - a school rating is an integer number of tenths;                    *)
(*   - a score is a mixed number [i, n, d] = i + n/d with 0 <= n < d,     *)
(*     and a match score, once rounded to 2 decimals, is an integer       *)
(*     number of hundredths;                                              *)
(*   - round(x, k) is rounding half to even on the exact value.           *)
(***************************************************************************)
EXTENDS Integers, Sequences, FiniteSets, TLC

(***************************************************************************)
(* config.py                                                               *)
(***************************************************************************)
DEFAULT_PROPERTY_COUNT == 20
DEFAULT_RECOMMENDATIONS == 3
DEFAULT_BUDGET == 500000
DEFAULT_MIN_BEDROOMS == 2

\* The weights, in hundredths (0.3 is 30).
SCORING_WEIGHTS ==
    [price_match |-> 30, bedroom |-> 20, school_rating |-> 15,
     commute |-> 15, property_age |-> 10, amenities |-> 10]

\* (lo, hi) pairs as handed to np.random.randint / uniform; school_rating in tenths.
PROPERTY_RANGES ==
    [bedrooms |-> <<1, 6>>, bathrooms |-> <<1, 5>>, square_feet |-> <<800, 4000>>,
     year_built |-> <<1950, 2024>>, lot_size |-> <<3000, 15000>>,
     school_rating |-> <<40, 100>>, commute_time |-> <<5, 60>>]

ZIP_CODES == <<10001, 10002, 10003, 90210, 94102, 60601, 77001, 30301, 33101, 98101>>
CITIES == <<"New York", "Los Angeles", "Chicago", "Houston", "Atlanta", "Miami", "Seattle">>
STATES == <<"NY", "CA", "IL", "TX", "GA", "FL", "WA">>
STREET_NAMES == <<"Main", "Oak", "Park", "Maple", "Elm">>

\* len(config.PROPERTY_IMAGES); an image URL is modelled by its index in the list.
NUM_PROPERTY_IMAGES == 12

(***************************************************************************)
(* Exact arithmetic on mixed numbers                                       *)
(***************************************************************************)
RECURSIVE GCD(_, _)
GCD(a, b) == IF b = 0 THEN (IF a < 0 THEN -a ELSE a) ELSE GCD(b, a % b)

\* n/d, d # 0, as a mixed number in lowest terms.
QFrac(n, d) ==
    LET s  == IF d < 0 THEN -1 ELSE 1
        nn == s * n
        dd == s * d
        r  == nn % dd
        g  == GCD(r, dd)
    IN  [i |-> nn \div dd, n |-> r \div g, d |-> dd \div g]

QInt(k) == [i |-> k, n |-> 0, d |-> 1]

QAdd(a, b) ==
    LET g  == GCD(a.d, b.d)
        l  == (a.d \div g) * b.d
        s  == a.n * (l \div a.d) + b.n * (l \div b.d)
        f  == QFrac(s, l)
    IN  [i |-> a.i + b.i + f.i, n |-> f.n, d |-> f.d]

\* k * a for an integer k >= 0.
QScale(k, a) ==
    LET g == GCD(k, a.d)
        f == QFrac((k \div g) * a.n, a.d \div g)
    IN  [i |-> k * a.i + f.i, n |-> f.n, d |-> f.d]

QNeg(a) == IF a.n = 0 THEN [i |-> -a.i, n |-> 0, d |-> 1]
           ELSE [i |-> -a.i - 1, n |-> a.d - a.n, d |-> a.d]

QSub(a, b) == QAdd(a, QNeg(b))

QLe(a, b) == LET c == QSub(b, a) IN c.i >= 0

QMax(a, b) == IF QLe(a, b) THEN b ELSE a

\* round(): half to even.
QRound(a) ==
    IF 2 * a.n < a.d THEN a.i
    ELSE IF 2 * a.n > a.d THEN a.i + 1
    ELSE IF a.i % 2 = 0 THEN a.i ELSE a.i + 1

(***************************************************************************)
(* State                                                                   *)
(***************************************************************************)
VARIABLES
    model_file,     \* the model file: whether it exists and what each loading method does
    model_loader,   \* the ModelLoader of create_app: [model, model_loaded]
    price_predictor,\* the PricePredictor of register_routes: [model, model_loaded]
    pc,             \* "boot" before create_app, "idle", or "generating" within a call
    call,           \* the call in progress: its route and arguments
    properties,     \* the local list properties of generate_properties
    predict_log,    \* for each generated property: what the model did, the value of
                    \* np.random.random() and the path that priced it
    response,       \* what the last call answered
    current_year,   \* datetime.now().year, read by the age score and the age clause
    sc_property,    \* scoring harness: the property handed to ScoringService
    sc_preferences, \* scoring harness: the preferences handed to ScoringService
    sc_result,      \* scoring harness: what the calls returned
    pf,             \* predictor harness: one call of predict_fallback
    legacy,         \* the legacy module app.py: its calls on the scoring inputs
    loading,        \* further load_model calls on the loader: how many and the last
    handlers        \* concurrent requests: the number started and, per request
                    \* thread, its position, its local variables and its answer

appVars == << model_file, model_loader, price_predictor, pc, call, properties,
              predict_log, response >>
harnessVars ==
    << sc_property, sc_preferences, sc_result, pf, handlers, loading, legacy >>
vars == << appVars, harnessVars, current_year >>

(***************************************************************************)
(* Python values a preferences dict may hold under a key.  A preferences   *)
(* value is [isdict, budget, min_bedrooms]; isdict is FALSE for a value    *)
(* that is no dict (it has no get).                                        *)
(***************************************************************************)
\* tag: "absent" (no such key), "num" (a number, v), "str" (a string), "null" (None).
Absent == [tag |-> "absent", v |-> 0]
Num(x) == [tag |-> "num", v |-> x]
Str    == [tag |-> "str", v |-> 0]
Null   == [tag |-> "null", v |-> 0]

\* dict.get(key): None for a missing key.
GetWithoutDefault(field, default) == IF field.tag = "absent" THEN Null ELSE field

\* dict.get(key, default)
Get(field, default) == IF field.tag = "absent" THEN Num(default) ELSE field

\* What a call returns: a value, or the exception it raised.
\* (Raise for a call that returns a number, RaiseQ a mixed number, RaiseSeq a list.)
Ok(x)       == [ok |-> TRUE, v |-> x, err |-> ""]
Raise(e)    == [ok |-> FALSE, v |-> 0, err |-> e]
RaiseQ(e)   == [ok |-> FALSE, v |-> [i |-> 0, n |-> 0, d |-> 1], err |-> e]
RaiseSeq(e) == [ok |-> FALSE, v |-> << >>, err |-> e]

(***************************************************************************)
(* app/services/scoring_service.py                                         *)
(***************************************************************************)
\* The price score with the penalty taken relative to the price.
PriceMatchScoreRelativeToPrice(predicted_price, user_budget) ==
    IF user_budget.tag # "num" THEN RaiseQ("TypeError")
    ELSE IF predicted_price <= 100 * user_budget.v THEN Ok(QInt(100))
    ELSE IF user_budget.v = 0 THEN RaiseQ("ZeroDivisionError")
    ELSE Ok(QMax(QInt(0), QSub(QInt(100),
                QScale(100, QFrac(predicted_price - 100 * user_budget.v,
                                  predicted_price)))))

\* The price score without max(0, ...).
PriceMatchScoreUnclamped(predicted_price, user_budget) ==
    IF user_budget.tag # "num" THEN RaiseQ("TypeError")
    ELSE IF predicted_price <= 100 * user_budget.v THEN Ok(QInt(100))
    ELSE IF user_budget.v = 0 THEN RaiseQ("ZeroDivisionError")
    ELSE Ok(QSub(QInt(100), QScale(100, QFrac(predicted_price - 100 * user_budget.v,
                                              100 * user_budget.v))))

\* predicted_price in cents, user_budget a Python value (dollars when a number).
calculate_price_match_score(predicted_price, user_budget) ==
    IF user_budget.tag # "num" THEN RaiseQ("TypeError")
    ELSE IF predicted_price <= 100 * user_budget.v THEN Ok(QInt(100))
    ELSE IF user_budget.v = 0 THEN RaiseQ("ZeroDivisionError")
    ELSE LET penalty == QScale(100, QFrac(predicted_price - 100 * user_budget.v,
                                          100 * user_budget.v))
         IN  Ok(QMax(QInt(0), QSub(QInt(100), penalty)))

\* The bedroom score with (property_bedrooms // user_min_bedrooms) * 100.
BedroomScoreFloorDivision(property_bedrooms, user_min_bedrooms) ==
    IF user_min_bedrooms.tag # "num" THEN RaiseQ("TypeError")
    ELSE IF property_bedrooms >= user_min_bedrooms.v THEN Ok(QInt(100))
    ELSE IF user_min_bedrooms.v = 0 THEN RaiseQ("ZeroDivisionError")
    ELSE Ok(QInt(100 * (property_bedrooms \div user_min_bedrooms.v)))

calculate_bedroom_score(property_bedrooms, user_min_bedrooms) ==
    IF user_min_bedrooms.tag # "num" THEN RaiseQ("TypeError")
    ELSE IF property_bedrooms >= user_min_bedrooms.v THEN Ok(QInt(100))
    ELSE IF user_min_bedrooms.v = 0 THEN RaiseQ("ZeroDivisionError")
    ELSE Ok(QScale(100, QFrac(property_bedrooms, user_min_bedrooms.v)))

\* school_rating in tenths.
calculate_school_rating_score(school_rating) ==
    QScale(100, QFrac(school_rating, 100))

\* The commute score with < for <= at each boundary.
CommuteScoreExclusive(commute_time) ==
    IF commute_time < 15 THEN QInt(100)
    ELSE IF commute_time < 30 THEN QInt(80)
    ELSE IF commute_time < 45 THEN QInt(50)
    ELSE QInt(20)

calculate_commute_score(commute_time) ==
    IF commute_time <= 15 THEN QInt(100)
    ELSE IF commute_time <= 30 THEN QInt(80)
    ELSE IF commute_time <= 45 THEN QInt(50)
    ELSE QInt(20)

calculate_property_age_score(year_built) ==
    LET age == current_year - year_built
    IN  IF age <= 5 THEN QInt(100)
        ELSE IF age <= 15 THEN QInt(80)
        ELSE IF age <= 30 THEN QInt(60)
        ELSE QInt(40)

BoolInt(b) == IF b THEN 1 ELSE 0

calculate_amenities_score(has_pool, has_garage, has_garden) ==
    QScale(100, QFrac(BoolInt(has_pool) + BoolInt(has_garage) + BoolInt(has_garden), 3))

\* The six component scores of calculate_match_score, as call results.
ComponentScores(property, preferences) ==
    LET user_budget       == Get(preferences.budget, DEFAULT_BUDGET)
        user_min_bedrooms == Get(preferences.min_bedrooms, DEFAULT_MIN_BEDROOMS)
    IN  [price_match   |-> calculate_price_match_score(property.predicted_price, user_budget),
         bedroom       |-> calculate_bedroom_score(property.bedrooms, user_min_bedrooms),
         school_rating |-> Ok(calculate_school_rating_score(property.school_rating)),
         commute       |-> Ok(calculate_commute_score(property.commute_time)),
         property_age  |-> Ok(calculate_property_age_score(property.year_built)),
         amenities     |-> Ok(calculate_amenities_score(property.has_pool,
                                   property.has_garage, property.has_garden))]

\* The weighted total without the amenities term.
WeightedTotalWithoutAmenities(c) ==
    LET weights == SCORING_WEIGHTS
    IN  QAdd(QScale(weights.price_match, c.price_match.v),
        QAdd(QScale(weights.bedroom, c.bedroom.v),
        QAdd(QScale(weights.school_rating, c.school_rating.v),
        QAdd(QScale(weights.commute, c.commute.v),
             QScale(weights.property_age, c.property_age.v)))))

\* The weighted total, in hundredths of a point, before rounding.
WeightedTotal(c) ==
    LET weights == SCORING_WEIGHTS
    IN  QAdd(QScale(weights.price_match, c.price_match.v),
        QAdd(QScale(weights.bedroom, c.bedroom.v),
        QAdd(QScale(weights.school_rating, c.school_rating.v),
        QAdd(QScale(weights.commute, c.commute.v),
        QAdd(QScale(weights.property_age, c.property_age.v),
             QScale(weights.amenities, c.amenities.v))))))

\* The match score with a total kept on the service and never reset: a later
\* call adds to what the call before left.
MatchScoreAccumulating(preferences, c) ==
    IF ~preferences.isdict THEN Raise("AttributeError")
    ELSE IF ~c.price_match.ok THEN Raise(c.price_match.err)
    ELSE IF ~c.bedroom.ok THEN Raise(c.bedroom.err)
    ELSE Ok((IF sc_result.score.called THEN sc_result.score.v ELSE 0)
            + QRound(WeightedTotal(c)))

\* The match score in hundredths (round(total_score, 2)), or the exception raised.
MatchScore(preferences, c) ==
    IF ~preferences.isdict THEN Raise("AttributeError")
    ELSE IF ~c.price_match.ok THEN Raise(c.price_match.err)
    ELSE IF ~c.bedroom.ok THEN Raise(c.bedroom.err)
    ELSE Ok(QRound(WeightedTotal(c)))

calculate_match_score(property, preferences) ==
    MatchScore(preferences, ComponentScores(property, preferences))

\* One clause of the reasoning text: its category, its wording (tier) and the
\* values the f-string prints (a, b; items for a list of words).
Clause(cat, tier, a, b, items) ==
    [cat |-> cat, tier |-> tier, a |-> a, b |-> b, items |-> items]

\* f"{x:,.0f}" of an amount in cents: the dollars, rounded to no decimals.
FormatDollars(cents) == QRound(QFrac(cents, 100))

\* The budget clause with < for <= at each threshold.
BudgetReasonExclusive(price, budget) ==
    IF price < 100 * budget
    THEN IF price < 90 * budget
         THEN Clause("budget", "well_under", FormatDollars(price), budget, << >>)
         ELSE Clause("budget", "comfortably_within", FormatDollars(price), budget, << >>)
    ELSE IF price < 110 * budget
         THEN Clause("budget", "slightly_above", FormatDollars(price), 0, << >>)
         ELSE Clause("budget", "above", FormatDollars(price), 0, << >>)

\* The budget clause; budget is a number of dollars, price is in cents.
BudgetReason(price, budget) ==
    IF price <= 100 * budget
    THEN IF price <= 90 * budget
         THEN Clause("budget", "well_under", FormatDollars(price), budget, << >>)
         ELSE Clause("budget", "comfortably_within", FormatDollars(price), budget, << >>)
    ELSE IF price <= 110 * budget
         THEN Clause("budget", "slightly_above", FormatDollars(price), 0, << >>)
         ELSE Clause("budget", "above", FormatDollars(price), 0, << >>)

BedroomReason(bedrooms, min_bedrooms) ==
    IF bedrooms >= min_bedrooms
    THEN << Clause("bedrooms", "meets", min_bedrooms, bedrooms, << >>) >>
    ELSE << >>

\* The school clause with > for >= at each threshold.
SchoolReasonExclusive(school_rating) ==
    IF school_rating > 80 THEN << Clause("school", "excellent", school_rating, 0, << >>) >>
    ELSE IF school_rating > 60 THEN << Clause("school", "good", school_rating, 0, << >>) >>
    ELSE << >>

SchoolReason(school_rating) ==
    IF school_rating >= 80 THEN << Clause("school", "excellent", school_rating, 0, << >>) >>
    ELSE IF school_rating >= 60 THEN << Clause("school", "good", school_rating, 0, << >>) >>
    ELSE << >>

CommuteReason(commute_time) ==
    IF commute_time <= 15 THEN << Clause("commute", "short", commute_time, 0, << >>) >>
    ELSE IF commute_time <= 30 THEN << Clause("commute", "reasonable", commute_time, 0, << >>) >>
    ELSE << >>

AgeReason(year_built) ==
    LET age == current_year - year_built
    IN  IF age <= 5 THEN << Clause("age", "recent", year_built, 0, << >>) >>
        ELSE IF age <= 15 THEN << Clause("age", "modern", year_built, 0, << >>) >>
        ELSE IF age <= 30 THEN << Clause("age", "established", year_built, 0, << >>) >>
        ELSE << >>

AmenitiesReason(property) ==
    LET amenities == (IF property.has_pool THEN << "pool" >> ELSE << >>)
                  \o (IF property.has_garage THEN << "garage" >> ELSE << >>)
                  \o (IF property.has_garden THEN << "garden" >> ELSE << >>)
    IN  IF amenities # << >>
        THEN << Clause("amenities", "features", 0, 0, amenities) >>
        ELSE << >>

LocationReason(city, state) ==
    IF city # "" /\ state # ""
    THEN << Clause("location", "location", 0, 0, << city, state >>) >>
    ELSE << >>

GenericReason == Clause("generic", "good_match", 0, 0, << >>)

\* "; ".join(reasons) if reasons else the generic text: the text is modelled by
\* the list of its clauses.
JoinReasons(reasons) == IF reasons # << >> THEN reasons ELSE << GenericReason >>

\* generate_reasoning with the commute block placed before the school block.
ReasoningCommuteBeforeSchool(property, preferences, score) ==
    LET budget       == Get(preferences.budget, DEFAULT_BUDGET)
        min_bedrooms == Get(preferences.min_bedrooms, DEFAULT_MIN_BEDROOMS)
    IN  IF ~preferences.isdict THEN RaiseSeq("AttributeError")
        ELSE IF budget.tag # "num" \/ min_bedrooms.tag # "num" THEN RaiseSeq("TypeError")
        ELSE Ok(JoinReasons(
                 << BudgetReason(property.predicted_price, budget.v) >>
                 \o BedroomReason(property.bedrooms, min_bedrooms.v)
                 \o CommuteReason(property.commute_time)
                 \o SchoolReason(property.school_rating)
                 \o AgeReason(property.year_built)
                 \o AmenitiesReason(property)
                 \o LocationReason(property.city, property.state)))

generate_reasoning(property, preferences, score) ==
    LET budget       == Get(preferences.budget, DEFAULT_BUDGET)
        min_bedrooms == Get(preferences.min_bedrooms, DEFAULT_MIN_BEDROOMS)
    IN  IF ~preferences.isdict THEN RaiseSeq("AttributeError")
        ELSE IF budget.tag # "num" \/ min_bedrooms.tag # "num" THEN RaiseSeq("TypeError")
        ELSE Ok(JoinReasons(
                 << BudgetReason(property.predicted_price, budget.v) >>
                 \o BedroomReason(property.bedrooms, min_bedrooms.v)
                 \o SchoolReason(property.school_rating)
                 \o CommuteReason(property.commute_time)
                 \o AgeReason(property.year_built)
                 \o AmenitiesReason(property)
                 \o LocationReason(property.city, property.state)))

(***************************************************************************)
(* app/models/predictor.py                                                 *)
(***************************************************************************)
Max(a, b) == IF a >= b THEN a ELSE b
Min(a, b) == IF a <= b THEN a ELSE b

\* The price floor of predict_fallback in mills: max(price, 50000).
PriceFloorMills == 50000 * 1000

\* The noise factor 0.9 + np.random.random() * 0.2 in hundredths, for a value of
\* np.random.random() given in twentieths (random = k stands for k/20).
NoiseFactor(random) == 90 + random

\* predict_fallback with (zip_code % 100) // 1000 for the location factor.
FallbackWithFloorDivision(property_data, random) ==
    LET price == 200000 + property_data.bedrooms * 50000
                 + property_data.bathrooms * 30000
                 + (property_data.square_feet - 1500) * 100
    IN  Max((price \div 100) * 1000 * NoiseFactor(random), PriceFloorMills)

\* The price in mills.  random is the value np.random.random() returns.  The sum of
\* the first four terms is a multiple of 100 dollars, so the product below is exact:
\* dollars * location/1000 * noise/100 = (dollars/100) * location * noise mills.
predict_fallback(property_data, random) ==
    LET base_price == 200000
        price      == base_price
                      + property_data.bedrooms * 50000
                      + property_data.bathrooms * 30000
                      + (property_data.square_feet - 1500) * 100
        zip_code   == property_data.zip_code
        \* location_factor = 1 + (zip_code % 100) / 1000, in thousandths
        location   == IF zip_code # 0 THEN 1000 + (zip_code % 100) ELSE 1000
    IN  Max((price \div 100) * location * NoiseFactor(random), PriceFloorMills)

\* What self.model.predict(features_array)[0] and float() do in one call:
\* "value" (a float, v mills), "raises" (predict raised) or "malformed" (the
\* result has no [0], or float() of it raised).
ModelValue(v) == [kind |-> "value", v |-> v]
ModelFails(k) == [kind |-> k, v |-> 0]

\* predict whose except branch catches only an exception of the model: a
\* malformed result is passed on as the price 0.0.
PredictPassingMalformed(self, property_data, outcome, random) ==
    IF self.model_loaded /\ self.model # "None"
    THEN IF outcome.kind = "value"
         THEN [price |-> outcome.v, via |-> "model", self |-> self]
         ELSE IF outcome.kind = "malformed"
         THEN [price |-> 0, via |-> "model", self |-> self]
         ELSE [price |-> predict_fallback(property_data, random), via |-> "fallback",
               self |-> self]
    ELSE [price |-> predict_fallback(property_data, random), via |-> "fallback",
          self |-> self]

\* predict returning 0.0 from its except branch.
PredictZeroOnError(self, property_data, outcome, random) ==
    IF self.model_loaded /\ self.model # "None"
    THEN IF outcome.kind = "value"
         THEN [price |-> outcome.v, via |-> "model", self |-> self]
         ELSE [price |-> 0, via |-> "fallback", self |-> self]
    ELSE [price |-> predict_fallback(property_data, random), via |-> "fallback",
          self |-> self]

\* predict switching the model off in its except branch.
PredictDisablingModel(self, property_data, outcome, random) ==
    IF self.model_loaded /\ self.model # "None"
    THEN IF outcome.kind = "value"
         THEN [price |-> outcome.v, via |-> "model", self |-> self]
         ELSE [price |-> predict_fallback(property_data, random), via |-> "fallback",
               self |-> [self EXCEPT !.model_loaded = FALSE]]
    ELSE [price |-> predict_fallback(property_data, random), via |-> "fallback",
          self |-> self]

\* predict with no fallback for a predictor without model.
PredictNeedingModel(self, property_data, outcome, random) ==
    IF self.model_loaded /\ self.model # "None"
    THEN IF outcome.kind = "value"
         THEN [price |-> outcome.v, via |-> "model", self |-> self]
         ELSE [price |-> predict_fallback(property_data, random), via |-> "fallback",
               self |-> self]
    ELSE [price |-> 0, via |-> "none", self |-> self]

\* PricePredictor.predict: the price in mills, (via) the path that produced it and
\* the predictor afterwards (predict assigns to no attribute of self).
predict(self, property_data, outcome, random) ==
    IF self.model_loaded /\ self.model # "None"
    THEN IF outcome.kind = "value"
         THEN [price |-> outcome.v, via |-> "model", self |-> self]
         ELSE [price |-> predict_fallback(property_data, random), via |-> "fallback",
               self |-> self]
    ELSE [price |-> predict_fallback(property_data, random), via |-> "fallback",
          self |-> self]

(***************************************************************************)
(* app/services/property_service.py                                        *)
(***************************************************************************)
\* round(x, 2) of a price in mills: the price in cents.
RoundToCents(mills) == QRound(QFrac(mills, 10))

\* The iteration with 'id': int(i) and PROPERTY_IMAGES[(i + 1) % len(...)].
GeneratePropertyOffByOne(predictor, i, draw, outcome) ==
    LET bedrooms  == draw.bedrooms
        bathrooms == Max(1, bedrooms - draw.bath_less)
        property_data ==
            [id |-> i,
             address |-> << draw.street_number, draw.street >>,
             city |-> draw.city,
             state |-> draw.state,
             zip_code |-> draw.zip_code,
             bedrooms |-> bedrooms,
             bathrooms |-> bathrooms,
             square_feet |-> draw.square_feet,
             year_built |-> draw.year_built,
             lot_size |-> draw.lot_size,
             property_type |-> "House",
             school_rating |-> draw.school_rating,
             commute_time |-> draw.commute_time,
             has_pool |-> draw.has_pool,
             has_garage |-> draw.has_garage,
             has_garden |-> draw.has_garden]
        predicted == predict(predictor, property_data, outcome, draw.random)
    IN  [property |-> [predicted_price |-> RoundToCents(predicted.price),
                       image_url |-> (i + 1) % NUM_PROPERTY_IMAGES] @@ property_data,
         via |-> predicted.via,
         predictor |-> predicted.self]

\* The iteration without `bathrooms = max(1, bathrooms)`.
GeneratePropertyWithoutBathroomFloor(predictor, i, draw, outcome) ==
    LET bedrooms  == draw.bedrooms
        bathrooms == bedrooms - draw.bath_less
        property_data ==
            [id |-> i + 1,
             address |-> << draw.street_number, draw.street >>,
             city |-> draw.city,
             state |-> draw.state,
             zip_code |-> draw.zip_code,
             bedrooms |-> bedrooms,
             bathrooms |-> bathrooms,
             square_feet |-> draw.square_feet,
             year_built |-> draw.year_built,
             lot_size |-> draw.lot_size,
             property_type |-> "House",
             school_rating |-> draw.school_rating,
             commute_time |-> draw.commute_time,
             has_pool |-> draw.has_pool,
             has_garage |-> draw.has_garage,
             has_garden |-> draw.has_garden]
        predicted == predict(predictor, property_data, outcome, draw.random)
    IN  [property |-> [predicted_price |-> RoundToCents(predicted.price),
                       image_url |-> i % NUM_PROPERTY_IMAGES] @@ property_data,
         via |-> predicted.via,
         predictor |-> predicted.self]

\* One iteration of the loop of generate_properties: i is the 0-based index, draw
\* holds what each np.random call of the iteration returns.
GenerateProperty(predictor, i, draw, outcome) ==
    LET bedrooms  == draw.bedrooms
        bathrooms == Max(1, bedrooms - draw.bath_less)
        property_data ==
            [id |-> i + 1,
             address |-> << draw.street_number, draw.street >>,
             city |-> draw.city,
             state |-> draw.state,
             zip_code |-> draw.zip_code,
             bedrooms |-> bedrooms,
             bathrooms |-> bathrooms,
             square_feet |-> draw.square_feet,
             year_built |-> draw.year_built,
             lot_size |-> draw.lot_size,
             property_type |-> "House",
             school_rating |-> draw.school_rating,
             commute_time |-> draw.commute_time,
             has_pool |-> draw.has_pool,
             has_garage |-> draw.has_garage,
             has_garden |-> draw.has_garden]
        predicted == predict(predictor, property_data, outcome, draw.random)
    IN  [property |-> [predicted_price |-> RoundToCents(predicted.price),
                       image_url |-> i % NUM_PROPERTY_IMAGES] @@ property_data,
         via |-> predicted.via,
         predictor |-> predicted.self]

(***************************************************************************)
(* app/models/loader.py                                                    *)
(***************************************************************************)
\* The loading strategies in the order load_model tries them.
LoadingMethods(joblib_available) ==
    (IF joblib_available THEN << "joblib" >> ELSE << >>)
    \o << "pickle with class workaround", "pickle" >>

\* The loop over loading_methods from position k on.  fs.load[m] is what method m
\* does on the file: "raises", "no_predict" (an object without predict) or
\* "model" (an object with predict, named here after the method that loaded it).
\* The loop with `self.model = model` placed before the hasattr test.
RECURSIVE TryLoadingStoringFirst(_, _, _, _, _)
TryLoadingStoringFirst(self, fs, methods, k, tried) ==
    IF k > Len(methods)
    THEN [self |-> [self EXCEPT !.model_loaded = FALSE], result |-> FALSE, tried |-> tried]
    ELSE IF fs.load[methods[k]] = "model"
    THEN [self |-> [model |-> methods[k], model_loaded |-> TRUE], result |-> TRUE,
          tried |-> Append(tried, methods[k])]
    ELSE IF fs.load[methods[k]] = "no_predict"
    THEN TryLoadingStoringFirst([self EXCEPT !.model = "object without predict"], fs,
                                methods, k + 1, Append(tried, methods[k]))
    ELSE TryLoadingStoringFirst(self, fs, methods, k + 1, Append(tried, methods[k]))

RECURSIVE TryLoadingMethods(_, _, _, _, _)
TryLoadingMethods(self, fs, methods, k, tried) ==
    IF k > Len(methods)
    THEN [self |-> [self EXCEPT !.model_loaded = FALSE], result |-> FALSE, tried |-> tried]
    ELSE IF fs.load[methods[k]] = "model"
    THEN [self |-> [model |-> methods[k], model_loaded |-> TRUE], result |-> TRUE,
          tried |-> Append(tried, methods[k])]
    ELSE TryLoadingMethods(self, fs, methods, k + 1, Append(tried, methods[k]))

\* ModelLoader.load_model on the file system fs: the loader afterwards, the value
\* returned and the methods attempted.
load_model(self, fs) ==
    IF ~fs.exists
    THEN [self |-> [self EXCEPT !.model_loaded = FALSE], result |-> FALSE, tried |-> << >>]
    ELSE TryLoadingMethods(self, fs, LoadingMethods(fs.joblib_available), 1, << >>)

\* ModelLoader.__init__
NewModelLoader == [model |-> "None", model_loaded |-> FALSE]

\* No load_model call after create_app yet.
NoLoadCall ==
    [calls |-> 0, before |-> NewModelLoader, result |-> FALSE, tried |-> << >>]

(***************************************************************************)
(* app/services/recommendation_service.py                                  *)
(***************************************************************************)
\* round(score, 2) of a score held in hundredths.
RoundScore(score) == QRound(QFrac(score, 1))

\* The scored record built from a list of keys that misses image_url.
ScoredPropertyFromKeys(prop, score, reasoning) ==
    IF ~score.ok THEN [ok |-> FALSE, v |-> prop, err |-> score.err]
    ELSE IF ~reasoning.ok THEN [ok |-> FALSE, v |-> prop, err |-> reasoning.err]
    ELSE Ok([match_score |-> RoundScore(score.v), reasoning |-> reasoning.v]
            @@ [f \in DOMAIN prop \ {"image_url"} |-> prop[f]])

\* The body of the scoring loop for one property, given what the two calls of
\* the scoring service returned: the scored record, or the exception.
ScoredProperty(prop, score, reasoning) ==
    IF ~score.ok THEN [ok |-> FALSE, v |-> prop, err |-> score.err]
    ELSE IF ~reasoning.ok THEN [ok |-> FALSE, v |-> prop, err |-> reasoning.err]
    ELSE Ok([match_score |-> RoundScore(score.v), reasoning |-> reasoning.v] @@ prop)

ScoreProperty(prop, preferences, score) ==
    ScoredProperty(prop, score, generate_reasoning(prop, preferences, score.v))

\* The scoring loop: the list of scored properties, or the first exception.
RECURSIVE ScoreProperties(_, _, _, _)
ScoreNextProperty(props, preferences, k, scored_properties, scored) ==
    IF ~scored.ok THEN RaiseSeq(scored.err)
    ELSE ScoreProperties(props, preferences, k + 1, Append(scored_properties, scored.v))

ScoreProperties(props, preferences, k, scored_properties) ==
    IF k > Len(props) THEN Ok(scored_properties)
    ELSE ScoreNextProperty(props, preferences, k, scored_properties,
             ScoreProperty(props[k], preferences,
                           calculate_match_score(props[k], preferences)))

\* The insertion of an unstable sort: x goes before the elements of equal score.
RECURSIVE InsertBeforeEqualScores(_, _)
InsertBeforeEqualScores(sorted, x) ==
    IF sorted = << >> THEN << x >>
    ELSE IF Head(sorted).match_score > x.match_score
    THEN << Head(sorted) >> \o InsertBeforeEqualScores(Tail(sorted), x)
    ELSE << x >> \o sorted

\* x put into a list sorted by match_score, descending, behind every element
\* whose match_score is at least its own.
RECURSIVE InsertByScore(_, _)
InsertByScore(sorted, x) ==
    IF sorted = << >> THEN << x >>
    ELSE IF Head(sorted).match_score >= x.match_score
    THEN << Head(sorted) >> \o InsertByScore(Tail(sorted), x)
    ELSE << x >> \o sorted

\* list.sort(key=match_score, reverse=True): stable, equal keys keep their order.
RECURSIVE SortByScore(_, _)
SortByScore(list, k) ==
    IF k = 0 THEN << >>
    ELSE InsertByScore(SortByScore(list, k - 1), list[k])

\* list[:n + 1]
SliceOneMore(list, n) ==
    IF n + 1 >= 0 THEN SubSeq(list, 1, Min(n + 1, Len(list)))
    ELSE SubSeq(list, 1, Max(0, Len(list) + n + 1))

\* list[:n]
SliceTo(list, n) ==
    IF n >= 0 THEN SubSeq(list, 1, Min(n, Len(list)))
    ELSE SubSeq(list, 1, Max(0, Len(list) + n))

\* What get_recommendations does once the properties are generated: the dict it
\* returns, or the exception it raises.
NoResult ==
    [success |-> FALSE, recommendations |-> << >>, total_properties_evaluated |-> 0,
     model_used |-> FALSE]

RankedResult(predictor, props, scored, num_recommendations) ==
    IF ~scored.ok THEN [ok |-> FALSE, v |-> NoResult, err |-> scored.err]
    ELSE Ok([success |-> TRUE,
             recommendations |-> SliceTo(SortByScore(scored.v, Len(scored.v)),
                                         num_recommendations),
             total_properties_evaluated |-> Len(props),
             model_used |-> predictor.model_loaded])

RecommendationResult(predictor, props, preferences, num_recommendations) ==
    RankedResult(predictor, props, ScoreProperties(props, preferences, 1, << >>),
                 num_recommendations)

(***************************************************************************)
(* app.py, the legacy module: its scoring functions and its /api/recommend *)
(* handler.  Names carry the prefix app_, for the module.                  *)
(***************************************************************************)
\* predicted_price in cents, user_budget a Python value (dollars when a number).
app_calculate_price_match_score(predicted_price, user_budget) ==
    IF user_budget.tag # "num" THEN RaiseQ("TypeError")
    ELSE IF predicted_price <= 100 * user_budget.v THEN Ok(QInt(100))
    ELSE IF user_budget.v = 0 THEN RaiseQ("ZeroDivisionError")
    ELSE LET penalty == QScale(100, QFrac(predicted_price - 100 * user_budget.v,
                                          100 * user_budget.v))
         IN  Ok(QMax(QInt(0), QSub(QInt(100), penalty)))

app_calculate_bedroom_score(property_bedrooms, user_min_bedrooms) ==
    IF user_min_bedrooms.tag # "num" THEN RaiseQ("TypeError")
    ELSE IF property_bedrooms >= user_min_bedrooms.v THEN Ok(QInt(100))
    ELSE IF user_min_bedrooms.v = 0 THEN RaiseQ("ZeroDivisionError")
    ELSE Ok(QScale(100, QFrac(property_bedrooms, user_min_bedrooms.v)))

\* school_rating in tenths.
app_calculate_school_rating_score(school_rating) ==
    QScale(100, QFrac(school_rating, 100))

app_calculate_commute_score(commute_time) ==
    IF commute_time <= 15 THEN QInt(100)
    ELSE IF commute_time <= 30 THEN QInt(80)
    ELSE IF commute_time <= 45 THEN QInt(50)
    ELSE QInt(20)

app_calculate_property_age_score(year_built) ==
    LET age == current_year - year_built
    IN  IF age <= 5 THEN QInt(100)
        ELSE IF age <= 15 THEN QInt(80)
        ELSE IF age <= 30 THEN QInt(60)
        ELSE QInt(40)

app_calculate_amenities_score(has_pool, has_garage, has_garden) ==
    QScale(100, QFrac(BoolInt(has_pool) + BoolInt(has_garage) + BoolInt(has_garden), 3))

\* The weighted total with the weights 0.25, 0.25, 0.15, 0.15, 0.1, 0.1.
AppTotalScoreOldWeights(price_match_score, bedroom_score, school_rating_score, commute_score, property_age_score, amenities_score) ==
    QAdd(QScale(25, price_match_score),
    QAdd(QScale(25, bedroom_score),
    QAdd(QScale(15, school_rating_score),
    QAdd(QScale(15, commute_score),
    QAdd(QScale(10, property_age_score),
         QScale(10, amenities_score))))))

\* total_score of app.calculate_match_score, in hundredths of a point.
app_total_score(price_match_score, bedroom_score, school_rating_score, commute_score, property_age_score, amenities_score) ==
    QAdd(QScale(30, price_match_score),
    QAdd(QScale(20, bedroom_score),
    QAdd(QScale(15, school_rating_score),
    QAdd(QScale(15, commute_score),
    QAdd(QScale(10, property_age_score),
         QScale(10, amenities_score))))))

\* app.calculate_match_score: the score in hundredths, or the exception raised.
app_calculate_match_score(property, preferences) ==
    IF ~preferences.isdict THEN Raise("AttributeError")
    ELSE
    LET user_budget         == Get(preferences.budget, 500000)
        user_min_bedrooms   == Get(preferences.min_bedrooms, 2)
        price_match_score   == app_calculate_price_match_score(property.predicted_price,
                                                               user_budget)
        bedroom_score       == app_calculate_bedroom_score(property.bedrooms,
                                                           user_min_bedrooms)
    IN  IF ~price_match_score.ok THEN Raise(price_match_score.err)
        ELSE IF ~bedroom_score.ok THEN Raise(bedroom_score.err)
        ELSE Ok(QRound(app_total_score(
                    price_match_score.v, bedroom_score.v,
                    app_calculate_school_rating_score(property.school_rating),
                    app_calculate_commute_score(property.commute_time),
                    app_calculate_property_age_score(property.year_built),
                    app_calculate_amenities_score(property.has_pool, property.has_garage,
                                                  property.has_garden))))

\* The budget block of app.generate_reasoning.
app_budget_reason(price, budget) ==
    IF price <= 100 * budget
    THEN IF price <= 90 * budget
         THEN Clause("budget", "well_under", FormatDollars(price), budget, << >>)
         ELSE Clause("budget", "comfortably_within", FormatDollars(price), budget, << >>)
    ELSE IF price <= 110 * budget
         THEN Clause("budget", "slightly_above", FormatDollars(price), 0, << >>)
         ELSE Clause("budget", "above", FormatDollars(price), 0, << >>)

\* The blocks of app.generate_reasoning after the budget block, in its order.
app_other_reasons(property, min_bedrooms) ==
    LET age == current_year - property.year_built
        amenities == (IF property.has_pool THEN << "pool" >> ELSE << >>)
                  \o (IF property.has_garage THEN << "garage" >> ELSE << >>)
                  \o (IF property.has_garden THEN << "garden" >> ELSE << >>)
    IN  (IF property.bedrooms >= min_bedrooms
         THEN << Clause("bedrooms", "meets", min_bedrooms, property.bedrooms, << >>) >>
         ELSE << >>)
        \o (IF property.school_rating >= 80
            THEN << Clause("school", "excellent", property.school_rating, 0, << >>) >>
            ELSE IF property.school_rating >= 60
            THEN << Clause("school", "good", property.school_rating, 0, << >>) >>
            ELSE << >>)
        \o (IF property.commute_time <= 15
            THEN << Clause("commute", "short", property.commute_time, 0, << >>) >>
            ELSE IF property.commute_time <= 30
            THEN << Clause("commute", "reasonable", property.commute_time, 0, << >>) >>
            ELSE << >>)
        \o (IF age <= 5
            THEN << Clause("age", "recent", property.year_built, 0, << >>) >>
            ELSE IF age <= 15
            THEN << Clause("age", "modern", property.year_built, 0, << >>) >>
            ELSE IF age <= 30
            THEN << Clause("age", "established", property.year_built, 0, << >>) >>
            ELSE << >>)
        \o (IF amenities # << >>
            THEN << Clause("amenities", "features", 0, 0, amenities) >>
            ELSE << >>)
        \o (IF property.city # "" /\ property.state # ""
            THEN << Clause("location", "location", 0, 0,
                           << property.city, property.state >>) >>
            ELSE << >>)

\* app.generate_reasoning: the text as the list of its clauses, or the exception.
app_generate_reasoning(property, preferences, score) ==
    LET budget       == Get(preferences.budget, 500000)
        min_bedrooms == Get(preferences.min_bedrooms, 2)
        reasons      == << app_budget_reason(property.predicted_price, budget.v) >>
                        \o app_other_reasons(property, min_bedrooms.v)
    IN  IF ~preferences.isdict THEN RaiseSeq("AttributeError")
        ELSE IF budget.tag # "num" \/ min_bedrooms.tag # "num" THEN RaiseSeq("TypeError")
        ELSE Ok(IF reasons # << >> THEN reasons ELSE << GenericReason >>)

\* The scoring loop of app.recommend from property k on: the scored records, or
\* the first exception.
RECURSIVE app_scored_properties(_, _, _, _)
app_scored_properties(props, preferences, k, scored_properties) ==
    IF k > Len(props) THEN Ok(scored_properties)
    ELSE LET prop      == props[k]
             score     == app_calculate_match_score(prop, preferences)
             reasoning == app_generate_reasoning(prop, preferences, score.v)
         IN  IF ~score.ok THEN RaiseSeq(score.err)
             ELSE IF ~reasoning.ok THEN RaiseSeq(reasoning.err)
             ELSE app_scored_properties(props, preferences, k + 1,
                      Append(scored_properties,
                             [match_score |-> QRound(QFrac(score.v, 1)),
                              reasoning |-> reasoning.v] @@ prop))

\* app.recommend once generate_mock_properties has returned props: the JSON it
\* answers, or the exception its except branch catches.
app_recommend(model_loaded, props, preferences) ==
    LET scored == app_scored_properties(props, preferences, 1, << >>)
    IN  IF ~scored.ok THEN [ok |-> FALSE, v |-> NoResult, err |-> scored.err]
        ELSE LET sorted == SortByScore(scored.v, Len(scored.v))
                 num_recommendations == Min(3, Len(sorted))
             IN  Ok([success |-> TRUE,
                     recommendations |-> SliceTo(sorted, num_recommendations),
                     total_properties_evaluated |-> Len(props),
                     model_used |-> model_loaded])

(***************************************************************************)
(* The scoring harness: ScoringService called on a property and a          *)
(* preferences dict drawn from bounded sets                                *)
(***************************************************************************)
FirstYear == 2025
MaxYear == 2026

NotCalled    == [called |-> FALSE, ok |-> FALSE, v |-> 0, err |-> ""]
NotCalledSeq == [called |-> FALSE, ok |-> FALSE, v |-> << >>, err |-> ""]

\* No call of the legacy module yet: of app.calculate_match_score, of
\* app.generate_reasoning, and of the two /api/recommend computations on a batch.
NoRanking == [called |-> FALSE, ok |-> FALSE, v |-> NoResult, err |-> ""]
NoLegacyCall ==
    [score |-> NotCalled, reasoning |-> NotCalledSeq,
     recommend |-> NoRanking, get_recommendations |-> NoRanking]
Called(r)    == [called |-> TRUE, ok |-> r.ok, v |-> r.v, err |-> r.err]
NoComponents ==
    [c \in {"price_match", "bedroom", "school_rating", "commute", "property_age",
            "amenities"} |-> RaiseQ("")]

\* year: datetime.now().year at each call (0: not called).
NoScoreCall ==
    [score |-> NotCalled, components |-> NoComponents, reasoning |-> NotCalledSeq,
     year |-> [score |-> 0, reasoning |-> 0],
     \* a second call of each with the same arguments
     again |-> [score |-> NotCalled, reasoning |-> NotCalledSeq,
                year |-> [score |-> 0, reasoning |-> 0]]]

\* The values each property field is drawn from: the ends of the generator's
\* ranges and both sides of every threshold the scoring code tests.
ScoreFieldValues ==
    [predicted_price |-> {0, 18918900, 27000000, 30000000, 45000000, 45000001,
                          50000000, 50000001, 55000000, 55000001, 93565491,
                          100000000, 120000000},
     bedrooms        |-> {1, 2, 3, 5},
     school_rating   |-> {40, 59, 60, 79, 80, 100},
     commute_time    |-> {5, 15, 16, 30, 31, 45, 46, 59},
     year_built      |-> {1950, FirstYear - 31, FirstYear - 30, FirstYear - 16,
                          FirstYear - 15, FirstYear - 6, FirstYear - 5, 2023},
     has_pool        |-> BOOLEAN,
     has_garage      |-> BOOLEAN,
     has_garden      |-> BOOLEAN,
     city            |-> {"Chicago", ""},
     state           |-> {"TX", ""}]

BestProperty ==
    [predicted_price |-> 18918900, bedrooms |-> 5, school_rating |-> 100,
     commute_time |-> 5, year_built |-> 2023, has_pool |-> TRUE, has_garage |-> TRUE,
     has_garden |-> TRUE, city |-> "Chicago", state |-> "TX"]

WorstProperty ==
    [predicted_price |-> 120000000, bedrooms |-> 1, school_rating |-> 40,
     commute_time |-> 59, year_built |-> 1950, has_pool |-> FALSE, has_garage |-> FALSE,
     has_garden |-> FALSE, city |-> "Chicago", state |-> "TX"]

\* Every property that differs from the best in at most two fields or from the
\* worst in at most one.
HarnessProperties ==
    UNION { { [[BestProperty EXCEPT ![f1] = v1] EXCEPT ![f2] = v2] :
                v1 \in ScoreFieldValues[f1], v2 \in ScoreFieldValues[f2] } :
            f1 \in DOMAIN ScoreFieldValues, f2 \in DOMAIN ScoreFieldValues }
    \cup UNION { { [WorstProperty EXCEPT ![f] = v] : v \in ScoreFieldValues[f] } :
                 f \in DOMAIN ScoreFieldValues }

HarnessPreferences ==
    [isdict : {TRUE},
     budget : {Absent, Num(DEFAULT_BUDGET), Num(300000), Num(1), Num(0), Num(-100000),
               Str, Null},
     min_bedrooms : {Absent, Num(DEFAULT_MIN_BEDROOMS), Num(4), Num(1), Num(0), Str}]

\* No application runs beside a harness.
NoApp ==
    /\ model_file = [exists |-> FALSE]
    /\ model_loader = [model |-> "None", model_loaded |-> FALSE]
    /\ price_predictor = [model |-> "None", model_loaded |-> FALSE]
    /\ pc = "harness"
    /\ handlers = << >>
    /\ loading = NoLoadCall
    /\ legacy = NoLegacyCall
    /\ call = << >>
    /\ properties = << >>
    /\ predict_log = << >>
    /\ response = << >>

NoPredictCall ==
    [property_data |-> [bedrooms |-> 0, bathrooms |-> 0, square_feet |-> 0,
                        zip_code |-> 0],
     random |-> 0, called |-> FALSE, price |-> 0]

ScoreInit ==
    /\ NoApp
    /\ pf = NoPredictCall
    /\ current_year \in FirstYear..MaxYear
    /\ sc_property \in HarnessProperties
    /\ sc_preferences \in HarnessPreferences
    /\ sc_result = NoScoreCall

\* scoring_service.calculate_match_score(property, preferences)
CallMatchScore ==
    /\ ~sc_result.score.called
    /\ sc_result' = [sc_result EXCEPT
           !.score = Called(calculate_match_score(sc_property, sc_preferences)),
           !.components = ComponentScores(sc_property, sc_preferences),
           !.year.score = current_year]
    /\ UNCHANGED << current_year, sc_property, sc_preferences, pf, handlers, loading, legacy,
                    appVars >>

\* scoring_service.generate_reasoning(property, preferences, score)
CallReasoning ==
    /\ ~sc_result.reasoning.called
    /\ sc_result' = [sc_result EXCEPT
           !.reasoning = Called(generate_reasoning(sc_property, sc_preferences,
                                                   sc_result.score.v)),
           !.year.reasoning = current_year]
    /\ UNCHANGED << current_year, sc_property, sc_preferences, pf, handlers, loading, legacy,
                    appVars >>

\* The calendar year changes.
NewYear ==
    /\ current_year < MaxYear
    /\ current_year' = current_year + 1
    /\ UNCHANGED << sc_property, sc_preferences, sc_result, pf, handlers, loading, legacy,
                    appVars >>

ScoreNext == CallMatchScore \/ CallReasoning \/ NewYear

SpecScore == ScoreInit /\ [][ScoreNext]_vars

(***************************************************************************)
(* The repeated call: each ScoringService method called twice with the     *)
(* same property and preferences, the year changing at any time            *)
(***************************************************************************)
\* Every property that differs from the best or the worst in at most one field.
RepeatProperties ==
    UNION { { [b EXCEPT ![f] = v] : v \in ScoreFieldValues[f] } :
            b \in {BestProperty, WorstProperty}, f \in DOMAIN ScoreFieldValues }

RepeatPreferences ==
    [isdict : {TRUE}, budget : {Absent, Num(300000), Num(0)},
     min_bedrooms : {Absent, Num(4), Str}]

RepeatInit ==
    /\ NoApp
    /\ pf = NoPredictCall
    /\ current_year \in FirstYear .. MaxYear
    /\ sc_property \in RepeatProperties
    /\ sc_preferences \in RepeatPreferences
    /\ sc_result = NoScoreCall

\* scoring_service.calculate_match_score(property, preferences), a second time
CallMatchScoreAgain ==
    /\ sc_result.score.called
    /\ ~sc_result.again.score.called
    /\ sc_result' = [sc_result EXCEPT
           !.again.score = Called(calculate_match_score(sc_property, sc_preferences)),
           !.again.year.score = current_year]
    /\ UNCHANGED << current_year, sc_property, sc_preferences, pf, handlers, loading, legacy,
                    appVars >>

\* scoring_service.generate_reasoning(property, preferences, score), a second time
CallReasoningAgain ==
    /\ sc_result.reasoning.called
    /\ ~sc_result.again.reasoning.called
    /\ sc_result' = [sc_result EXCEPT
           !.again.reasoning = Called(generate_reasoning(sc_property, sc_preferences,
                                                         sc_result.score.v)),
           !.again.year.reasoning = current_year]
    /\ UNCHANGED << current_year, sc_property, sc_preferences, pf, handlers, loading, legacy,
                    appVars >>

RepeatNext ==
    \/ CallMatchScore
    \/ CallReasoning
    \/ CallMatchScoreAgain
    \/ CallReasoningAgain
    \/ NewYear

SpecRepeat == RepeatInit /\ [][RepeatNext]_vars

(***************************************************************************)
(* The predictor harness: PricePredictor.predict_fallback called on        *)
(* property data and a value of np.random.random() drawn from bounded sets *)
(***************************************************************************)
\* The inputs: the ends of the generator's ranges, the values of the documented
\* example, a missing zip code (0) and values below the generator's ranges, for
\* which the floor decides the price.
PredictInputs ==
    [bedrooms : {0, 1, 3, 5}, bathrooms : {0, 1, 2, 5},
     square_feet : {0, 800, 1500, 3999}, zip_code : {0, 10001, 10003, 90210}]

PredictInit ==
    /\ NoApp
    /\ current_year = FirstYear
    /\ sc_property = BestProperty
    /\ sc_preferences = [isdict |-> TRUE, budget |-> Absent, min_bedrooms |-> Absent]
    /\ sc_result = NoScoreCall
    /\ \E property_data \in PredictInputs, random \in 0 .. 19 :
         pf = [property_data |-> property_data, random |-> random,
               called |-> FALSE, price |-> 0]

\* price_predictor.predict_fallback(property_data)
CallPredictFallback ==
    /\ ~pf.called
    /\ pf' = [pf EXCEPT !.called = TRUE,
                        !.price = predict_fallback(pf.property_data, pf.random)]
    /\ UNCHANGED << current_year, sc_property, sc_preferences, sc_result, handlers, loading, legacy,
                    appVars >>

PredictNext == CallPredictFallback

SpecPredict == PredictInit /\ [][PredictNext]_vars

(***************************************************************************)
(* The application: create_app, the routes of app/routes/api.py and direct *)
(* calls of RecommendationService.get_recommendations                      *)
(***************************************************************************)
\* Bounds of the exploration.
MaxVaried == 2      \* iterations of a batch whose random draws range over RandomDraws
MaxCount == 3       \* largest property_count of a direct get_recommendations call

\* Whether draw holds values the np.random calls of one iteration can return.
InRange(x, range) == range[1] <= x /\ x < range[2]
Elements(list) == { list[k] : k \in DOMAIN list }
IsDraw(draw) ==
    /\ InRange(draw.bedrooms, PROPERTY_RANGES.bedrooms)
    /\ InRange(draw.bath_less, << 0, 2 >>)
    /\ InRange(draw.square_feet, PROPERTY_RANGES.square_feet)
    /\ InRange(draw.year_built, PROPERTY_RANGES.year_built)
    /\ draw.zip_code \in Elements(ZIP_CODES)
    /\ InRange(draw.lot_size, PROPERTY_RANGES.lot_size)
    /\ PROPERTY_RANGES.school_rating[1] <= draw.school_rating
    /\ draw.school_rating <= PROPERTY_RANGES.school_rating[2]
    /\ InRange(draw.commute_time, PROPERTY_RANGES.commute_time)
    /\ draw.has_pool \in BOOLEAN /\ draw.has_garage \in BOOLEAN
    /\ draw.has_garden \in BOOLEAN
    /\ InRange(draw.street_number, << 100, 9999 >>)
    /\ draw.street \in Elements(STREET_NAMES)
    /\ draw.city \in Elements(CITIES)
    /\ draw.state \in Elements(STATES)
    /\ draw.random \in 0 .. 19

LowDraw ==
    [bedrooms |-> 1, bath_less |-> 1, square_feet |-> 800, year_built |-> 1950,
     zip_code |-> 10001, lot_size |-> 3000, school_rating |-> 40, commute_time |-> 59,
     has_pool |-> FALSE, has_garage |-> FALSE, has_garden |-> FALSE,
     street_number |-> 100, street |-> "Main", city |-> "New York", state |-> "NY",
     random |-> 0]

HighDraw ==
    [bedrooms |-> 5, bath_less |-> 0, square_feet |-> 3999, year_built |-> 2023,
     zip_code |-> 90210, lot_size |-> 14999, school_rating |-> 100, commute_time |-> 5,
     has_pool |-> TRUE, has_garage |-> TRUE, has_garden |-> TRUE,
     street_number |-> 9998, street |-> "Elm", city |-> "Seattle", state |-> "WA",
     random |-> 19]

BaselineDraw ==
    [bedrooms |-> 3, bath_less |-> 1, square_feet |-> 1500, year_built |-> 2000,
     zip_code |-> 10003, lot_size |-> 5000, school_rating |-> 60, commute_time |-> 30,
     has_pool |-> FALSE, has_garage |-> TRUE, has_garden |-> FALSE,
     street_number |-> 1234, street |-> "Oak", city |-> "Chicago", state |-> "TX",
     random |-> 10]

RandomDraws == { d \in {LowDraw, HighDraw} : IsDraw(d) }

\* What a loaded model may do in one predict call (prices in mills).
BaselineOutcome == ModelValue(612345674)
ModelOutcomes ==
    {BaselineOutcome, ModelValue(12345678), ModelFails("raises"), ModelFails("malformed")}

DrawsAt(i) == IF i < MaxVaried THEN RandomDraws ELSE {BaselineDraw}
OutcomesAt(i) ==
    IF ~(price_predictor.model_loaded /\ price_predictor.model # "None")
    THEN {ModelFails("raises")}
    ELSE IF i < MaxVaried THEN ModelOutcomes ELSE {BaselineOutcome}

\* The model file at start-up.
AllMethods == {"joblib", "pickle with class workaround", "pickle"}
MissingFile == [exists |-> FALSE, joblib_available |-> TRUE,
                load |-> [m \in AllMethods |-> "raises"]]
CorruptFile == [exists |-> TRUE, joblib_available |-> TRUE,
                load |-> [m \in AllMethods |-> "raises"]]
GoodFile    == [exists |-> TRUE, joblib_available |-> TRUE,
                load |-> [m \in AllMethods |-> "model"]]
WrappedFile == [exists |-> TRUE, joblib_available |-> TRUE,
                load |-> [m \in AllMethods |->
                             IF m = "joblib" THEN "raises" ELSE "model"]]
FsConfigs == {MissingFile, CorruptFile, GoodFile, WrappedFile}

\* Preferences values.
Preferences(budget, min_bedrooms) ==
    [isdict |-> TRUE, budget |-> budget, min_bedrooms |-> min_bedrooms]
EmptyPreferences == Preferences(Absent, Absent)
NotADict == [isdict |-> FALSE, budget |-> Absent, min_bedrooms |-> Absent]

\* What request.json gives: kind "raises" (request.json raised), "null" (None),
\* "empty" ({}), "nondict" (a true value without get) or "dict"; for a dict,
\* key tells whether it has the key 'preferences' and preferences is its value.
Body(kind, key, preferences) == [kind |-> kind, key |-> key, preferences |-> preferences]
RequestBodies ==
    {Body("raises", FALSE, EmptyPreferences),
     Body("null", FALSE, EmptyPreferences),
     Body("empty", FALSE, EmptyPreferences),
     Body("nondict", FALSE, EmptyPreferences),
     Body("dict", FALSE, EmptyPreferences),
     Body("dict", TRUE, EmptyPreferences),
     Body("dict", TRUE, Preferences(Num(400000), Num(4))),
     Body("dict", TRUE, Preferences(Num(0), Absent)),
     Body("dict", TRUE, Preferences(Str, Absent)),
     Body("dict", TRUE, NotADict)}

ServicePreferences == {EmptyPreferences, Preferences(Num(400000), Num(4))}

\* A call: its route, the kind of request body (data) and the arguments of
\* get_recommendations or generate_properties.
NoCall == [route |-> "none", data |-> "", preferences |-> EmptyPreferences,
           property_count |-> 0, num_recommendations |-> 0]

\* A response: the HTTP status (0 for a direct call), raised when an exception
\* left the call, and the fields of the JSON body or of the returned dict.
NoResponse ==
    [route |-> "none", status |-> 0, raised |-> FALSE, success |-> FALSE, error |-> "",
     recommendations |-> << >>, total_properties_evaluated |-> 0, model_used |-> FALSE,
     properties |-> << >>, count |-> 0, health |-> "", model_loaded |-> FALSE]

Init ==
    /\ model_file \in FsConfigs
    /\ model_loader = NewModelLoader
    /\ price_predictor = [model |-> "None", model_loaded |-> FALSE]
    /\ pc = "boot"
    /\ call = NoCall
    /\ properties = << >>
    /\ predict_log = << >>
    /\ response = NoResponse
    /\ current_year = FirstYear
    /\ sc_property = BestProperty
    /\ sc_preferences = EmptyPreferences
    /\ sc_result = NoScoreCall
    /\ pf = NoPredictCall
    /\ handlers = << >>
    /\ loading = NoLoadCall
    /\ legacy = NoLegacyCall

\* create_app: a new ModelLoader, load_model, then register_routes, which builds
\* the PricePredictor from the loader's model and model_loaded.
CreateApp ==
    /\ pc = "boot"
    /\ LET loaded == load_model(NewModelLoader, model_file).self
       IN  /\ model_loader' = loaded
           /\ price_predictor' = [model |-> loaded.model,
                                  model_loaded |-> loaded.model_loaded]
    /\ pc' = "idle"
    /\ UNCHANGED << model_file, call, properties, predict_log, response, harnessVars, current_year >>

\* GET /api/health
Health ==
    /\ pc = "idle"
    /\ response' = [NoResponse EXCEPT !.route = "health", !.status = 200,
                                      !.health = "healthy",
                                      !.model_loaded = model_loader.model_loaded]
    /\ call' = [NoCall EXCEPT !.route = "health"]
    /\ properties' = << >>
    /\ predict_log' = << >>
    /\ UNCHANGED << model_file, model_loader, price_predictor, pc, harnessVars, current_year >>

\* POST /api/recommend, up to the loop of generate_properties.
RecommendRequest ==
    /\ pc = "idle"
    /\ properties' = << >>
    /\ predict_log' = << >>
    /\ \E data \in RequestBodies :
         IF data.kind = "raises" \/ data.kind = "nondict"
         THEN \* request.json or data.get raised: the except branch
              /\ response' = [NoResponse EXCEPT !.route = "recommend", !.status = 500,
                                  !.error = IF data.kind = "raises" THEN "BadRequest"
                                            ELSE "AttributeError"]
              /\ call' = [NoCall EXCEPT !.route = "recommend", !.data = data.kind]
              /\ UNCHANGED pc
         ELSE IF data.kind = "null" \/ data.kind = "empty"
         THEN \* if not data
              /\ response' = [NoResponse EXCEPT !.route = "recommend", !.status = 400,
                                  !.error = "No data provided"]
              /\ call' = [NoCall EXCEPT !.route = "recommend", !.data = data.kind]
              /\ UNCHANGED pc
         ELSE \* get_recommendations(preferences) with the default counts
              /\ call' = [route |-> "recommend", data |-> data.kind,
                          preferences |-> IF data.key THEN data.preferences
                                          ELSE EmptyPreferences,
                          property_count |-> DEFAULT_PROPERTY_COUNT,
                          num_recommendations |-> DEFAULT_RECOMMENDATIONS]
              /\ pc' = "generating"
              /\ response' = NoResponse
    /\ UNCHANGED << model_file, model_loader, price_predictor, harnessVars, current_year >>

\* GET /api/properties, up to the loop of generate_properties.
PropertiesRequest ==
    /\ pc = "idle"
    /\ call' = [NoCall EXCEPT !.route = "properties",
                              !.property_count = DEFAULT_PROPERTY_COUNT]
    /\ pc' = "generating"
    /\ properties' = << >>
    /\ predict_log' = << >>
    /\ response' = NoResponse
    /\ UNCHANGED << model_file, model_loader, price_predictor, harnessVars, current_year >>

\* recommendation_service.get_recommendations(preferences, property_count,
\* num_recommendations) called directly, up to the loop of generate_properties.
ServiceCall ==
    /\ pc = "idle"
    /\ \E preferences \in ServicePreferences, property_count \in -1 .. MaxCount,
          num_recommendations \in -1 .. MaxCount + 1 :
         call' = [route |-> "service", data |-> "", preferences |-> preferences,
                  property_count |-> property_count,
                  num_recommendations |-> num_recommendations]
    /\ pc' = "generating"
    /\ properties' = << >>
    /\ predict_log' = << >>
    /\ response' = NoResponse
    /\ UNCHANGED << model_file, model_loader, price_predictor, harnessVars, current_year >>

\* One iteration of `for i in range(count)` in generate_properties.
GenerateStep ==
    /\ pc = "generating"
    /\ Len(properties) < call.property_count
    /\ \E draw \in DrawsAt(Len(properties)), outcome \in OutcomesAt(Len(properties)) :
         LET g == GenerateProperty(price_predictor, Len(properties), draw, outcome)
         IN  /\ properties' = Append(properties, g.property)
             /\ predict_log' = Append(predict_log,
                                      [outcome |-> outcome, random |-> draw.random,
                                       via |-> g.via])
             /\ price_predictor' = g.predictor
    /\ UNCHANGED << model_file, model_loader, pc, call, response,
                    harnessVars, current_year >>

\* The answer of a route without try/except: the exception leaves the handler.
UnguardedResponse(route, r) ==
    IF r.ok
    THEN [NoResponse EXCEPT
             !.route = route,
             !.status = IF route = "recommend" THEN 200 ELSE 0,
             !.success = r.v.success,
             !.recommendations = r.v.recommendations,
             !.total_properties_evaluated = r.v.total_properties_evaluated,
             !.model_used = r.v.model_used]
    ELSE [NoResponse EXCEPT !.route = route, !.raised = TRUE, !.error = r.err]

\* What answers a call whose get_recommendations ended with r: for the route,
\* jsonify(result) or the except branch; for a direct call, the dict or the exception.
RecommendResponse(route, r) ==
    IF r.ok
    THEN [NoResponse EXCEPT
             !.route = route,
             !.status = IF route = "recommend" THEN 200 ELSE 0,
             !.success = r.v.success,
             !.recommendations = r.v.recommendations,
             !.total_properties_evaluated = r.v.total_properties_evaluated,
             !.model_used = r.v.model_used]
    ELSE IF route = "recommend"
    THEN [NoResponse EXCEPT !.route = "recommend", !.status = 500, !.error = r.err]
    ELSE [NoResponse EXCEPT !.route = "service", !.raised = TRUE, !.error = r.err]

\* The rest of get_recommendations (scoring, sort, truncation) and the answer.
FinishRecommendations ==
    /\ pc = "generating"
    /\ call.route \in {"recommend", "service"}
    /\ Len(properties) >= call.property_count
    /\ response' = RecommendResponse(call.route,
                        RecommendationResult(price_predictor, properties,
                                             call.preferences, call.num_recommendations))
    /\ pc' = "idle"
    /\ UNCHANGED << model_file, model_loader, price_predictor, call, properties,
                    predict_log, harnessVars, current_year >>

\* The rest of get_properties: jsonify of the list.
FinishProperties ==
    /\ pc = "generating"
    /\ call.route = "properties"
    /\ Len(properties) >= call.property_count
    /\ response' = [NoResponse EXCEPT !.route = "properties", !.status = 200,
                                      !.success = TRUE, !.properties = properties,
                                      !.count = Len(properties)]
    /\ pc' = "idle"
    /\ UNCHANGED << model_file, model_loader, price_predictor, call, properties,
                    predict_log, harnessVars, current_year >>

Next ==
    \/ CreateApp
    \/ Health
    \/ RecommendRequest
    \/ PropertiesRequest
    \/ ServiceCall
    \/ GenerateStep
    \/ FinishRecommendations
    \/ FinishProperties

Spec == Init /\ [][Next]_vars

(***************************************************************************)
(* Requests served concurrently.  Each request runs its handler in a       *)
(* thread of its own; the loader and the predictor built by create_app are *)
(* the objects every handler reaches, everything else a handler touches is *)
(* local to it.                                                            *)
(***************************************************************************)
Handlers == {"h1", "h2"}
MaxServed == 3

\* A handler thread: where it is, the number of the request it serves, the
\* call, the loop index and the local list of generate_properties, the answer.
FreeHandler ==
    [pc |-> "free", serial |-> 0, call |-> NoCall, i |-> 0, properties |-> << >>,
     response |-> NoResponse]
NoHandlers == [served |-> 0, thread |-> [h \in Handlers |-> FreeHandler]]

ConcurrentBodies ==
    {Body("null", FALSE, EmptyPreferences),
     Body("dict", TRUE, EmptyPreferences),
     Body("dict", TRUE, Preferences(Num(0), Absent))}

ConcurrentOutcomes ==
    IF price_predictor.model_loaded /\ price_predictor.model # "None"
    THEN {BaselineOutcome}
    ELSE {ModelFails("raises")}

\* An append to one list that every call of generate_properties extends.
AppendToSharedList(h, property_data) ==
    LET longest == CHOOSE x \in Handlers :
                       \A y \in Handlers : Len(handlers.thread[x].properties)
                                              >= Len(handlers.thread[y].properties)
    IN  Append(handlers.thread[longest].properties, property_data)

\* properties.append(property_data) on the list made by `properties = []`.
AppendToBatch(h, property_data) ==
    Append(handlers.thread[h].properties, property_data)

ConcurrentInit ==
    /\ model_file \in {MissingFile, GoodFile}
    /\ model_loader = NewModelLoader
    /\ price_predictor = [model |-> "None", model_loaded |-> FALSE]
    /\ pc = "boot"
    /\ call = NoCall
    /\ properties = << >>
    /\ predict_log = << >>
    /\ response = NoResponse
    /\ current_year = FirstYear
    /\ sc_property = BestProperty
    /\ sc_preferences = EmptyPreferences
    /\ sc_result = NoScoreCall
    /\ pf = NoPredictCall
    /\ handlers = NoHandlers
    /\ loading = NoLoadCall
    /\ legacy = NoLegacyCall

\* The server hands a request to a thread that serves none.
Accepting(h) ==
    /\ pc = "idle"
    /\ handlers.thread[h].pc \in {"free", "done"}
    /\ handlers.served < MaxServed

Begin(h, thread) ==
    handlers' = [served |-> handlers.served + 1,
                 thread |-> [handlers.thread EXCEPT
                                ![h] = [thread EXCEPT !.serial = handlers.served + 1]]]

\* GET /api/health in thread h.
HandleHealth(h) ==
    /\ Accepting(h)
    /\ Begin(h, [FreeHandler EXCEPT
                    !.pc = "done",
                    !.call = [NoCall EXCEPT !.route = "health"],
                    !.response = [NoResponse EXCEPT
                                     !.route = "health", !.status = 200,
                                     !.health = "healthy",
                                     !.model_loaded = model_loader.model_loaded]])
    /\ UNCHANGED << appVars, sc_property, sc_preferences, sc_result, pf, loading, legacy,
                    current_year >>

\* POST /api/recommend in thread h, up to the loop of generate_properties.
HandleRecommend(h) ==
    /\ Accepting(h)
    /\ \E data \in ConcurrentBodies :
         IF data.kind = "null"
         THEN Begin(h, [FreeHandler EXCEPT
                           !.pc = "done",
                           !.call = [NoCall EXCEPT !.route = "recommend",
                                                   !.data = data.kind],
                           !.response = [NoResponse EXCEPT
                                            !.route = "recommend", !.status = 400,
                                            !.error = "No data provided"]])
         ELSE Begin(h, [FreeHandler EXCEPT
                           !.pc = "generating",
                           !.call = [route |-> "recommend", data |-> data.kind,
                                     preferences |-> data.preferences,
                                     property_count |-> DEFAULT_PROPERTY_COUNT,
                                     num_recommendations |-> DEFAULT_RECOMMENDATIONS]])
    /\ UNCHANGED << appVars, sc_property, sc_preferences, sc_result, pf, loading, legacy,
                    current_year >>

\* GET /api/properties in thread h, up to the loop of generate_properties.
HandleProperties(h) ==
    /\ Accepting(h)
    /\ Begin(h, [FreeHandler EXCEPT
                    !.pc = "generating",
                    !.call = [NoCall EXCEPT !.route = "properties",
                                            !.property_count = DEFAULT_PROPERTY_COUNT]])
    /\ UNCHANGED << appVars, sc_property, sc_preferences, sc_result, pf, loading, legacy,
                    current_year >>

\* One iteration of `for i in range(count)` in thread h.  generated_for notes
\* the request whose call produced the property.
HandleGenerate(h) ==
    LET thread == handlers.thread[h]
    IN  /\ thread.pc = "generating"
        /\ thread.i < thread.call.property_count
        /\ \E outcome \in ConcurrentOutcomes :
             LET g == GenerateProperty(price_predictor, thread.i, BaselineDraw, outcome)
                 property_data == g.property @@ [generated_for |-> thread.serial]
             IN  /\ handlers' = [handlers EXCEPT
                                    !.thread[h].properties = AppendToBatch(h, property_data),
                                    !.thread[h].i = thread.i + 1]
                 /\ price_predictor' = g.predictor
        /\ UNCHANGED << model_file, model_loader, pc, call, properties, predict_log,
                        response, sc_property, sc_preferences, sc_result, pf, loading, legacy,
                        current_year >>

\* The rest of the handler in thread h: scoring, sort and truncation for
\* /api/recommend, jsonify of the list for /api/properties.
HandleFinish(h) ==
    LET thread == handlers.thread[h]
    IN  /\ thread.pc = "generating"
        /\ thread.i >= thread.call.property_count
        /\ handlers' = [handlers EXCEPT
              !.thread[h].pc = "done",
              !.thread[h].response =
                  IF thread.call.route = "recommend"
                  THEN RecommendResponse("recommend",
                           RecommendationResult(price_predictor, thread.properties,
                                                thread.call.preferences,
                                                thread.call.num_recommendations))
                  ELSE [NoResponse EXCEPT !.route = "properties", !.status = 200,
                                          !.success = TRUE,
                                          !.properties = thread.properties,
                                          !.count = Len(thread.properties)]]
        /\ UNCHANGED << appVars, sc_property, sc_preferences, sc_result, pf, loading, legacy,
                        current_year >>

ConcurrentNext ==
    \/ CreateApp
    \/ \E h \in Handlers : HandleHealth(h)
    \/ \E h \in Handlers : HandleRecommend(h)
    \/ \E h \in Handlers : HandleProperties(h)
    \/ \E h \in Handlers : HandleGenerate(h)
    \/ \E h \in Handlers : HandleFinish(h)

SpecConcurrent == ConcurrentInit /\ [][ConcurrentNext]_vars

(***************************************************************************)
(* PropertyService.generate_properties called directly, the np.random      *)
(* calls of each iteration returning values at and around the ends of      *)
(* their ranges.                                                           *)
(***************************************************************************)
MaxGenerated == 2   \* largest count of a direct generate_properties call

\* round(np.random.uniform(low, high), 1) in tenths, uniform in thousandths.
RoundToTenths(uniform) == QRound(QFrac(uniform, 100))

\* Values of np.random.uniform(4.0, 10.0), which is at least 4.0 and below 10.0.
UniformValues == {4000, 4049, 4051, 6949, 9951, 9999}

\* Per np.random call of an iteration, the ends of what it can return.
DrawFieldValues ==
    [bedrooms      |-> {PROPERTY_RANGES.bedrooms[1], PROPERTY_RANGES.bedrooms[2] - 1},
     bath_less     |-> {0, 1},
     square_feet   |-> {PROPERTY_RANGES.square_feet[1], PROPERTY_RANGES.square_feet[2] - 1},
     year_built    |-> {PROPERTY_RANGES.year_built[1], PROPERTY_RANGES.year_built[2] - 1},
     zip_code      |-> Elements(ZIP_CODES),
     lot_size      |-> {PROPERTY_RANGES.lot_size[1], PROPERTY_RANGES.lot_size[2] - 1},
     school_rating |-> { RoundToTenths(u) : u \in UniformValues },
     commute_time  |-> {PROPERTY_RANGES.commute_time[1], PROPERTY_RANGES.commute_time[2] - 1},
     city          |-> Elements(CITIES),
     state         |-> Elements(STATES)]

BoundaryDraws ==
    { d \in {LowDraw, HighDraw}
            \cup UNION { { [BaselineDraw EXCEPT ![f] = v] : v \in DrawFieldValues[f] } :
                         f \in DOMAIN DrawFieldValues } : IsDraw(d) }

GenerateInit ==
    /\ model_file \in {MissingFile, GoodFile}
    /\ model_loader = NewModelLoader
    /\ price_predictor = [model |-> "None", model_loaded |-> FALSE]
    /\ pc = "boot"
    /\ call = NoCall
    /\ properties = << >>
    /\ predict_log = << >>
    /\ response = NoResponse
    /\ current_year = FirstYear
    /\ sc_property = BestProperty
    /\ sc_preferences = EmptyPreferences
    /\ sc_result = NoScoreCall
    /\ pf = NoPredictCall
    /\ handlers = << >>
    /\ loading = NoLoadCall
    /\ legacy = NoLegacyCall

\* property_service.generate_properties(count), up to the loop.
GenerateCall ==
    /\ pc = "idle"
    /\ \E count \in 0 .. MaxGenerated :
         call' = [NoCall EXCEPT !.route = "generate", !.property_count = count]
    /\ pc' = "generating"
    /\ properties' = << >>
    /\ predict_log' = << >>
    /\ response' = NoResponse
    /\ UNCHANGED << model_file, model_loader, price_predictor, harnessVars, current_year >>

\* One iteration of `for i in range(count)`.
GenerateDraw ==
    /\ pc = "generating"
    /\ Len(properties) < call.property_count
    /\ \E draw \in BoundaryDraws, outcome \in ConcurrentOutcomes :
         LET g == GenerateProperty(price_predictor, Len(properties), draw, outcome)
         IN  /\ properties' = Append(properties, g.property)
             /\ predict_log' = Append(predict_log,
                                      [outcome |-> outcome, random |-> draw.random,
                                       via |-> g.via])
             /\ price_predictor' = g.predictor
    /\ UNCHANGED << model_file, model_loader, pc, call, response,
                    harnessVars, current_year >>

\* return properties
GenerateReturn ==
    /\ pc = "generating"
    /\ Len(properties) >= call.property_count
    /\ response' = [NoResponse EXCEPT !.route = "generate", !.success = TRUE,
                                      !.properties = properties,
                                      !.count = Len(properties)]
    /\ pc' = "idle"
    /\ UNCHANGED << model_file, model_loader, price_predictor, call, properties,
                    predict_log, harnessVars, current_year >>

GenerateNext == CreateApp \/ GenerateCall \/ GenerateDraw \/ GenerateReturn

SpecGenerate == GenerateInit /\ [][GenerateNext]_vars

(***************************************************************************)
(* The application with further load_model calls on the loader that        *)
(* create_app made (get_model_loader hands it out), the model file         *)
(* changing on disk in between.                                            *)
(***************************************************************************)
MaxReloads == 2     \* load_model calls after create_app

ReloadInit ==
    /\ model_file \in FsConfigs
    /\ model_loader = NewModelLoader
    /\ price_predictor = [model |-> "None", model_loaded |-> FALSE]
    /\ pc = "boot"
    /\ call = NoCall
    /\ properties = << >>
    /\ predict_log = << >>
    /\ response = NoResponse
    /\ current_year = FirstYear
    /\ sc_property = BestProperty
    /\ sc_preferences = EmptyPreferences
    /\ sc_result = NoScoreCall
    /\ pf = NoPredictCall
    /\ handlers = << >>
    /\ loading = NoLoadCall
    /\ legacy = NoLegacyCall

\* The file at config.MODEL_PATH is replaced, removed or put in place.
FileChanges ==
    /\ pc = "idle"
    /\ model_file' \in FsConfigs \ {model_file}
    /\ UNCHANGED << model_loader, price_predictor, pc, call, properties, predict_log,
                    response, harnessVars, current_year >>

\* get_model_loader().load_model()
LoadModelAgain ==
    /\ pc = "idle"
    /\ loading.calls < MaxReloads
    /\ LET r == load_model(model_loader, model_file)
       IN  /\ model_loader' = r.self
           /\ loading' = [calls |-> loading.calls + 1, before |-> model_loader,
                          result |-> r.result, tried |-> r.tried]
    /\ UNCHANGED << model_file, price_predictor, pc, call, properties, predict_log,
                    response, sc_property, sc_preferences, sc_result, pf, handlers, legacy,
                    current_year >>

\* What the model does in the first predict call of a request; in the later
\* calls it returns BaselineOutcome.
FirstOutcomes ==
    IF price_predictor.model_loaded /\ price_predictor.model # "None"
    THEN {BaselineOutcome, ModelFails("raises")}
    ELSE {ModelFails("raises")}

\* The loop of generate_properties from iteration Len(batch.properties) on, the
\* draws of every iteration being those of BaselineDraw: the list, the predict
\* calls made and the predictor afterwards.
RECURSIVE GenerateBatch(_, _, _)
GenerateBatch(batch, count, first) ==
    IF Len(batch.properties) >= count
    THEN batch
    ELSE LET i == Len(batch.properties)
             outcome == IF i = 0 THEN first ELSE BaselineOutcome
             g == GenerateProperty(batch.predictor, i, BaselineDraw, outcome)
         IN  GenerateBatch([properties |-> Append(batch.properties, g.property),
                            predict_log |-> Append(batch.predict_log,
                                                   [outcome |-> outcome,
                                                    random |-> BaselineDraw.random,
                                                    via |-> g.via]),
                            predictor |-> g.predictor],
                           count, first)

\* POST /api/recommend from request.json to the answer.
RecommendOnce ==
    /\ pc = "idle"
    /\ \E data \in ConcurrentBodies, first \in FirstOutcomes :
         IF data.kind = "null"
         THEN /\ response' = [NoResponse EXCEPT !.route = "recommend", !.status = 400,
                                                !.error = "No data provided"]
              /\ call' = [NoCall EXCEPT !.route = "recommend", !.data = data.kind]
              /\ properties' = << >>
              /\ predict_log' = << >>
              /\ UNCHANGED price_predictor
         ELSE LET batch == GenerateBatch([properties |-> << >>, predict_log |-> << >>,
                                          predictor |-> price_predictor],
                                         DEFAULT_PROPERTY_COUNT, first)
              IN  /\ call' = [route |-> "recommend", data |-> data.kind,
                              preferences |-> data.preferences,
                              property_count |-> DEFAULT_PROPERTY_COUNT,
                              num_recommendations |-> DEFAULT_RECOMMENDATIONS]
                  /\ properties' = batch.properties
                  /\ predict_log' = batch.predict_log
                  /\ price_predictor' = batch.predictor
                  /\ response' = RecommendResponse("recommend",
                                     RecommendationResult(batch.predictor,
                                         batch.properties, data.preferences,
                                         DEFAULT_RECOMMENDATIONS))
    /\ UNCHANGED << model_file, model_loader, pc, harnessVars, current_year >>

ReloadNext ==
    \/ CreateApp
    \/ Health
    \/ RecommendOnce
    \/ FileChanges
    \/ LoadModelAgain

SpecReload == ReloadInit /\ [][ReloadNext]_vars

(***************************************************************************)
(* ModelLoader alone: load_model called again and again on one loader,     *)
(* the model file changing on disk in between.                             *)
(***************************************************************************)
MaxLoads == 3       \* load_model calls on the loader

\* What a loading strategy does on a file.
LoadOutcomes == {"raises", "no_predict", "model"}

\* The file at config.MODEL_PATH and whether joblib could be imported.
LoaderFiles ==
    {MissingFile}
    \cup [exists : {TRUE}, joblib_available : BOOLEAN, load : [AllMethods -> LoadOutcomes]]

LoaderInit ==
    /\ model_file \in LoaderFiles
    /\ model_loader = NewModelLoader
    /\ price_predictor = [model |-> "None", model_loaded |-> FALSE]
    /\ pc = "harness"
    /\ call = << >>
    /\ properties = << >>
    /\ predict_log = << >>
    /\ response = << >>
    /\ current_year = FirstYear
    /\ sc_property = BestProperty
    /\ sc_preferences = EmptyPreferences
    /\ sc_result = NoScoreCall
    /\ pf = NoPredictCall
    /\ handlers = << >>
    /\ loading = NoLoadCall
    /\ legacy = NoLegacyCall

\* The file is replaced, removed or put in place.
LoaderFileChanges ==
    /\ model_file' \in LoaderFiles \ {model_file}
    /\ UNCHANGED << model_loader, price_predictor, pc, call, properties, predict_log,
                    response, harnessVars, current_year >>

\* model_loader.load_model()
CallLoadModel ==
    /\ loading.calls < MaxLoads
    /\ LET r == load_model(model_loader, model_file)
       IN  /\ model_loader' = r.self
           /\ loading' = [calls |-> loading.calls + 1, before |-> model_loader,
                          result |-> r.result, tried |-> r.tried]
    /\ UNCHANGED << model_file, price_predictor, pc, call, properties, predict_log,
                    response, sc_property, sc_preferences, sc_result, pf, handlers, legacy,
                    current_year >>

LoaderNext == LoaderFileChanges \/ CallLoadModel

SpecLoader == LoaderInit /\ [][LoaderNext]_vars

(***************************************************************************)
(* The legacy module beside the services: both computations called on the  *)
(* same scoring inputs and on the same generated batch.                    *)
(***************************************************************************)
\* The draws of the iterations of one generated batch, repeated in turn.
DrawPatterns ==
    {<< LowDraw, HighDraw, BaselineDraw >>,
     << HighDraw, BaselineDraw, LowDraw >>,
     << BaselineDraw, BaselineDraw, HighDraw >>}

\* The batch of DEFAULT_PROPERTY_COUNT properties generated with the draws of
\* pattern by a predictor without model.
GeneratedBatch(pattern) ==
    [k \in 1 .. DEFAULT_PROPERTY_COUNT |->
        GenerateProperty([model |-> "None", model_loaded |-> FALSE], k - 1,
                         pattern[((k - 1) % Len(pattern)) + 1],
                         ModelFails("raises")).property]

\* Either a property to score and no batch, or a batch to rank.
LegacyInit ==
    /\ model_file = [exists |-> FALSE]
    /\ model_loader = NewModelLoader
    /\ price_predictor = [model |-> "None", model_loaded |-> FALSE]
    /\ pc = "harness"
    /\ call = << >>
    /\ predict_log = << >>
    /\ response = << >>
    /\ handlers = << >>
    /\ loading = NoLoadCall
    /\ legacy = NoLegacyCall
    /\ pf = NoPredictCall
    /\ sc_result = NoScoreCall
    /\ current_year \in FirstYear .. MaxYear
    /\ sc_preferences \in RepeatPreferences
    /\ \/ sc_property \in RepeatProperties /\ properties = << >>
       \/ sc_property = BestProperty
          /\ properties \in { GeneratedBatch(pattern) : pattern \in DrawPatterns }

\* app.calculate_match_score(property, preferences)
CallAppMatchScore ==
    /\ ~legacy.score.called
    /\ legacy' = [legacy EXCEPT
           !.score = Called(app_calculate_match_score(sc_property, sc_preferences))]
    /\ UNCHANGED << current_year, sc_property, sc_preferences, sc_result, pf, handlers,
                    loading, appVars >>

\* app.generate_reasoning(property, preferences, score)
CallAppReasoning ==
    /\ ~legacy.reasoning.called
    /\ legacy' = [legacy EXCEPT
           !.reasoning = Called(app_generate_reasoning(sc_property, sc_preferences,
                                                       legacy.score.v))]
    /\ UNCHANGED << current_year, sc_property, sc_preferences, sc_result, pf, handlers,
                    loading, appVars >>

\* The legacy /api/recommend handler on the batch.
CallAppRecommend ==
    /\ properties # << >>
    /\ ~legacy.recommend.called
    /\ legacy' = [legacy EXCEPT
           !.recommend = Called(app_recommend(price_predictor.model_loaded, properties,
                                              sc_preferences))]
    /\ UNCHANGED << current_year, sc_property, sc_preferences, sc_result, pf, handlers,
                    loading, appVars >>

\* RecommendationService.get_recommendations with the default counts on the batch.
CallGetRecommendations ==
    /\ properties # << >>
    /\ ~legacy.get_recommendations.called
    /\ legacy' = [legacy EXCEPT
           !.get_recommendations =
               Called(RecommendationResult(price_predictor, properties, sc_preferences,
                                           DEFAULT_RECOMMENDATIONS))]
    /\ UNCHANGED << current_year, sc_property, sc_preferences, sc_result, pf, handlers,
                    loading, appVars >>

LegacyNext ==
    \/ CallMatchScore
    \/ CallReasoning
    \/ CallAppMatchScore
    \/ CallAppReasoning
    \/ CallAppRecommend
    \/ CallGetRecommendations

SpecLegacy == LegacyInit /\ [][LegacyNext]_vars

(***************************************************************************)
(* The properties checked                                                  *)
(***************************************************************************)
\* A preferences field that is missing or a number of at least least.
MissingOrAtLeast(field, least) ==
    field.tag = "absent" \/ (field.tag = "num" /\ field.v >= least)

\* A score (a mixed number) lies in [0, 100].
InScoreRange(q) == QLe(QInt(0), q) /\ QLe(q, QInt(100))

ComponentNames == DOMAIN NoComponents

\* C1: for a property with a non-negative predicted_price and preferences whose
\* budget is positive (or missing) and whose min_bedrooms is at least 1 (or
\* missing), calculate_match_score returns a value in [0, 100] and each of the
\* six component scores lies in [0, 100].  (SpecScore)
C1_ScoresInRange ==
    ( /\ sc_result.score.called
      /\ sc_property.predicted_price >= 0
      /\ MissingOrAtLeast(sc_preferences.budget, 1)
      /\ MissingOrAtLeast(sc_preferences.min_bedrooms, 1) )
    => /\ sc_result.score.ok
       /\ 0 <= sc_result.score.v /\ sc_result.score.v <= 100 * 100
       /\ \A c \in ComponentNames :
            sc_result.components[c].ok /\ InScoreRange(sc_result.components[c].v)

\* C1 happens: a score was returned for a price of more than twice the budget
\* (where the penalty exceeds 100) and fewer bedrooms than asked for.
C1_Witness ==
    /\ sc_result.score.called /\ sc_result.score.ok
    /\ MissingOrAtLeast(sc_preferences.budget, 1)
    /\ MissingOrAtLeast(sc_preferences.min_bedrooms, 1)
    /\ sc_property.predicted_price > 2 * 100 * Get(sc_preferences.budget, 500000).v
    /\ sc_property.bedrooms < Get(sc_preferences.min_bedrooms, 2).v
    /\ sc_result.components.price_match.v = QInt(0)

\* The recommendations of the last answer of get_recommendations.
Answered == pc = "idle" /\ call.route \in {"recommend", "service"}
Succeeded == Answered /\ response.success

\* C2: the recommendations returned are in non-increasing order of match_score,
\* and of two with equal match_score the one generated first (smaller id) comes
\* first.  (Spec)
C2_SortedStable ==
    Succeeded =>
        \A i, j \in DOMAIN response.recommendations :
            i < j =>
                /\ response.recommendations[i].match_score
                       >= response.recommendations[j].match_score
                /\ response.recommendations[i].match_score
                       = response.recommendations[j].match_score
                   => response.recommendations[i].id < response.recommendations[j].id

\* C2 happens: three recommendations, the sort moved a later property to the
\* front, and two of them tie.
C2_Witness ==
    /\ Succeeded
    /\ Len(response.recommendations) = 3
    /\ response.recommendations[1].id > 1
    /\ response.recommendations[1].match_score > response.recommendations[2].match_score
    /\ response.recommendations[2].match_score = response.recommendations[3].match_score

\* C3 as stated: for every property_count and num_recommendations passed to
\* get_recommendations, the number of recommendations is
\* min(num_recommendations, property_count) and total_properties_evaluated is
\* property_count.  (Spec)
C3_CountsForEveryArgument ==
    Succeeded =>
        /\ Len(response.recommendations)
               = Min(call.num_recommendations, call.property_count)
        /\ response.total_properties_evaluated = call.property_count

\* C3 amended: for every property_count >= 0 and num_recommendations >= 0 the
\* number of recommendations is min(num_recommendations, property_count) and
\* total_properties_evaluated is property_count; with the defaults 20 and 3 the
\* answer holds 3 recommendations and reports 20.  (Spec)
C3_CountsForNonNegative ==
    /\ (Succeeded /\ call.property_count >= 0 /\ call.num_recommendations >= 0) =>
           /\ Len(response.recommendations)
                  = Min(call.num_recommendations, call.property_count)
           /\ response.total_properties_evaluated = call.property_count
    /\ (Succeeded /\ call.route = "recommend") =>
           /\ Len(response.recommendations) = 3
           /\ response.total_properties_evaluated = 20

\* C3 happens: the route answered with 3 of 20 properties.
C3_Witness ==
    /\ Succeeded /\ call.route = "recommend"
    /\ call.property_count = 20 /\ call.num_recommendations = 3
    /\ Len(properties) = 20
    /\ Len(response.recommendations) = 3

\* The predictor's model path is active.
ModelActive == price_predictor.model_loaded /\ price_predictor.model # "None"

\* The price (in cents) the property at position k has when the fallback priced it.
FallbackPriceAt(k) ==
    RoundToCents(predict_fallback(properties[k], predict_log[k].random))

\* C4: with an active model, a predict call in which the model raises or returns
\* a malformed result takes the fallback price for that property and only for
\* it, every call tries the model again, and generate_properties(count) returns
\* count properties with a predicted_price each.  (Spec)
C4_FallbackPerCall ==
    /\ Len(predict_log) = Len(properties)
    /\ ModelActive =>
           \A k \in DOMAIN properties :
               IF predict_log[k].outcome.kind = "value"
               THEN /\ predict_log[k].via = "model"
                    /\ properties[k].predicted_price
                           = RoundToCents(predict_log[k].outcome.v)
               ELSE /\ predict_log[k].via = "fallback"
                    /\ properties[k].predicted_price = FallbackPriceAt(k)
    /\ (pc = "idle" /\ call.route = "properties") =>
           /\ response.status = 200 /\ response.success
           /\ response.count = call.property_count
           /\ Len(response.properties) = call.property_count
           /\ \A k \in DOMAIN response.properties :
                  response.properties[k].predicted_price > 0

\* C4 happens: a batch of 20 is complete, the model failed for the first
\* property in one way and for the second in the other, and the third was
\* priced by the model.
C4_Witness ==
    /\ pc = "idle" /\ call.route = "properties" /\ ModelActive
    /\ response.count = 20
    /\ predict_log[1].outcome.kind = "raises" /\ predict_log[1].via = "fallback"
    /\ predict_log[2].outcome.kind = "malformed" /\ predict_log[2].via = "fallback"
    /\ predict_log[3].via = "model"

\* C5: predict_fallback returns max(p, 50000) for
\* p = (200000 + bedrooms*50000 + bathrooms*30000 + (square_feet - 1500)*100)
\*     * (1 + (zip_code mod 100)/1000, when zip_code is not 0) * r
\* with a noise factor r in [0.9, 1.1); for bedrooms 3, bathrooms 2, square_feet
\* 1500, zip_code 0 and r = 1 the price is exactly 410000.  (SpecPredict)
C5_FallbackFormula ==
    pf.called =>
        LET d == pf.property_data
            base == 200000 + d.bedrooms * 50000 + d.bathrooms * 30000
                    + (d.square_feet - 1500) * 100
            thousandths == IF d.zip_code # 0 THEN 1000 + (d.zip_code % 100) ELSE 1000
            r == 90 + pf.random
            p == QScale(base, QFrac(thousandths * r, 100000))
        IN  /\ 90 <= r /\ r < 110
            /\ QFrac(pf.price, 1000) = QMax(p, QInt(50000))
            /\ (d = [bedrooms |-> 3, bathrooms |-> 2, square_feet |-> 1500,
                     zip_code |-> 0] /\ r = 100)
               => pf.price = 410000 * 1000

\* C5 happens: the call of the documented example was made.
C5_Witness ==
    /\ pf.called
    /\ pf.property_data = [bedrooms |-> 3, bathrooms |-> 2, square_feet |-> 1500,
                           zip_code |-> 0]
    /\ pf.random = 10
    /\ pf.price = 410000 * 1000

\* C6 as stated: every generated property has predicted_price >= 50000,
\* whichever path produced the price.  (Spec)
C6_FloorOnEveryPath ==
    \A k \in DOMAIN properties : properties[k].predicted_price >= 50000 * 100

\* C6 amended: every generated property whose price the heuristic fallback
\* produced has predicted_price >= 50000; a price the model produced is the
\* model's output rounded to cents, whatever its size.  (Spec)
C6_FloorOnFallbackPath ==
    \A k \in DOMAIN properties :
        /\ predict_log[k].via = "fallback"
           => properties[k].predicted_price >= 50000 * 100
        /\ predict_log[k].via = "model"
           => properties[k].predicted_price = RoundToCents(predict_log[k].outcome.v)

\* C6 happens: a batch holds a property priced by the fallback and one priced by
\* the model below 50000.
C6_Witness ==
    /\ pc = "idle" /\ Len(properties) >= 2
    /\ \E k \in DOMAIN properties : predict_log[k].via = "fallback"
    /\ \E k \in DOMAIN properties :
          predict_log[k].via = "model" /\ properties[k].predicted_price < 50000 * 100

\* C7: model_used of a successful answer is whether the predictor's model path
\* is active, and no step of a batch, a fallback after a model error included,
\* changes that state.  (Spec)
C7_ModelUsedStable ==
    [][ /\ pc # "boot" => price_predictor' = price_predictor
        /\ (pc' = "idle" /\ call'.route \in {"recommend", "service"}
              /\ response'.success)
           => /\ response'.model_used = price_predictor'.model_loaded
              /\ response'.model_used
                     = (price_predictor.model_loaded /\ price_predictor.model # "None")
      ]_vars

\* C7 happens: an answer reports model_used true for a batch in which the model
\* failed and the fallback stepped in.
C7_Witness ==
    /\ Succeeded /\ response.model_used
    /\ \E k \in DOMAIN predict_log : predict_log[k].via = "fallback"
    /\ \E k \in DOMAIN predict_log : predict_log[k].via = "model"

\* No model can be loaded from the model file.
NoModelLoadable ==
    ~model_file.exists \/ \A m \in DOMAIN model_file.load : model_file.load[m] # "model"

\* A preferences envelope that is valid: a dict whose fields are missing or
\* positive numbers.
ValidEnvelope(preferences) ==
    /\ preferences.isdict
    /\ MissingOrAtLeast(preferences.budget, 1)
    /\ MissingOrAtLeast(preferences.min_bedrooms, 1)

\* C8: when no model was loaded, the health endpoint answers healthy with
\* model_loaded false, and a recommend request with a valid preferences envelope
\* succeeds with fallback prices and model_used false.  (Spec)
C8_ServesWithoutModel ==
    (NoModelLoadable /\ pc = "idle") =>
        /\ call.route = "health"
           => /\ response.status = 200 /\ response.health = "healthy"
              /\ response.model_loaded = FALSE
        /\ (call.route = "recommend" /\ call.data = "dict"
              /\ ValidEnvelope(call.preferences))
           => /\ response.status = 200 /\ response.success
              /\ response.model_used = FALSE
              /\ Len(response.recommendations) = 3
              /\ \A k \in DOMAIN properties :
                     /\ predict_log[k].via = "fallback"
                     /\ properties[k].predicted_price = FallbackPriceAt(k)

\* C8 happens: the model file exists but no strategy loads it, and a recommend
\* request was answered.
C8_Witness ==
    /\ model_file.exists /\ NoModelLoadable
    /\ pc = "idle" /\ call.route = "recommend" /\ call.data = "dict"
    /\ call.preferences.budget = Num(400000)
    /\ response.success /\ Len(response.recommendations) = 3

\* C9: no error leaves the /api/recommend handler: a request without body data
\* gets 400 and no property is generated, an exception during generation or
\* scoring gets 500 with success false and an error message, and success is
\* true only with status 200.  (Spec)
C9_ErrorsAnswered ==
    (pc = "idle" /\ call.route = "recommend") =>
        /\ ~response.raised
        /\ response.status \in {200, 400, 500}
        /\ call.data \in {"null", "empty"}
           => /\ response.status = 400 /\ ~response.success
              /\ response.error # "" /\ properties = << >>
        /\ (call.data = "dict" /\ ~ValidEnvelope(call.preferences))
           => response.status = 500
        /\ response.status = 500 => ~response.success /\ response.error # ""
        /\ response.success => response.status = 200

\* C9 happens: scoring raised after all 20 properties were generated and the
\* handler answered 500.
C9_Witness ==
    /\ pc = "idle" /\ call.route = "recommend"
    /\ Len(properties) = 20
    /\ response.status = 500 /\ response.error = "ZeroDivisionError"

\* sc_preferences with 500000 for a missing budget and 2 for a missing min_bedrooms.
WithDocumentedDefaults ==
    [isdict |-> TRUE,
     budget |-> IF sc_preferences.budget.tag = "absent" THEN Num(500000)
                ELSE sc_preferences.budget,
     min_bedrooms |-> IF sc_preferences.min_bedrooms.tag = "absent" THEN Num(2)
                      ELSE sc_preferences.min_bedrooms]

\* C10: scoring and reasoning with a missing budget or min_bedrooms give what
\* they give (in the same year) with budget 500000 and min_bedrooms 2 in its
\* place; {} is scored like {budget: 500000, min_bedrooms: 2}, without error.
\* (SpecScore)
C10_DefaultsForMissing ==
    (sc_preferences.budget.tag = "absent" \/ sc_preferences.min_bedrooms.tag = "absent")
    => /\ sc_result.year.score = current_year
          => sc_result.score
                 = Called(calculate_match_score(sc_property, WithDocumentedDefaults))
       /\ sc_result.year.reasoning = current_year
          => sc_result.reasoning
                 = Called(generate_reasoning(sc_property, WithDocumentedDefaults,
                                             sc_result.score.v))
       /\ (sc_result.score.called /\ sc_preferences = EmptyPreferences)
          => sc_result.score.ok

\* C10 happens: both calls were made with {} and returned.
C10_Witness ==
    /\ sc_preferences = EmptyPreferences
    /\ sc_result.score.called /\ sc_result.score.ok
    /\ sc_result.reasoning.called /\ sc_result.reasoning.ok
    /\ sc_property.predicted_price > 500000 * 100
    /\ sc_property.bedrooms < 2

\* The budget and min_bedrooms a call uses: the value given, or 500000 and 2.
BudgetUsed == IF sc_preferences.budget.tag = "absent" THEN 500000
              ELSE sc_preferences.budget.v
MinBedroomsUsed == IF sc_preferences.min_bedrooms.tag = "absent" THEN 2
                   ELSE sc_preferences.min_bedrooms.v

\* calculate_match_score was called and returned.
Scored == sc_result.score.called /\ sc_result.score.ok

\* C11: for a budget > 0, calculate_price_match_score is 100 whenever
\* predicted_price <= budget and otherwise
\* max(0, 100 - (predicted_price - budget)/budget * 100); it is 0 for every
\* predicted_price >= 2 * budget.  (SpecScore)
C11_PriceMatchFormula ==
    ( /\ sc_result.score.called
      /\ MissingOrAtLeast(sc_preferences.budget, 1)
      /\ sc_property.predicted_price >= 0 )
    => LET price  == sc_property.predicted_price     \* cents
           budget == 100 * BudgetUsed                \* cents
           got    == sc_result.components.price_match
       IN  /\ got.ok
           /\ price <= budget => got.v = QInt(100)
           /\ price > budget
              => got.v = QMax(QInt(0),
                              QSub(QInt(100), QScale(100, QFrac(price - budget, budget))))
           /\ price >= 2 * budget => got.v = QInt(0)

\* C11 happens: a price of exactly twice the budget was scored 0, the budget
\* being given.
C11_Witness ==
    /\ sc_result.score.called
    /\ sc_preferences.budget = Num(500000)
    /\ sc_property.predicted_price = 2 * 500000 * 100
    /\ sc_result.components.price_match = Ok(QInt(0))

\* C12: calculate_bedroom_score is 100 whenever bedrooms >= min_bedrooms and
\* otherwise bedrooms / min_bedrooms * 100; 3 bedrooms with min_bedrooms 4 give
\* exactly 75.  (SpecScore)
C12_BedroomFormula ==
    ( /\ sc_result.score.called
      /\ MissingOrAtLeast(sc_preferences.min_bedrooms, 1) )
    => LET got == sc_result.components.bedroom
       IN  /\ got.ok
           /\ sc_property.bedrooms >= MinBedroomsUsed => got.v = QInt(100)
           /\ sc_property.bedrooms < MinBedroomsUsed
              => got.v = QScale(100, QFrac(sc_property.bedrooms, MinBedroomsUsed))
           /\ (sc_property.bedrooms = 3 /\ MinBedroomsUsed = 4) => got.v = QInt(75)

\* C12 happens: 3 bedrooms were scored against min_bedrooms 4.
C12_Witness ==
    /\ sc_result.score.called
    /\ sc_property.bedrooms = 3
    /\ sc_preferences.min_bedrooms = Num(4)
    /\ sc_result.components.bedroom = Ok(QInt(75))

\* The tier a value falls in, the upper boundaries being inclusive.
Tier(x, first, second, third, scores) ==
    IF x <= first THEN scores[1]
    ELSE IF x <= second THEN scores[2]
    ELSE IF x <= third THEN scores[3]
    ELSE scores[4]

\* C13: calculate_commute_score is 100 for commute_time <= 15, 80 for 16..30,
\* 50 for 31..45 and 20 above; calculate_property_age_score is, for
\* age = current year - year_built, 100 for age <= 5, 80 for 6..15, 60 for
\* 16..30 and 40 above.  (SpecScore)
C13_TierBoundaries ==
    sc_result.score.called
    => /\ sc_result.components.commute
              = Ok(QInt(Tier(sc_property.commute_time, 15, 30, 45,
                             << 100, 80, 50, 20 >>)))
       /\ sc_result.components.property_age
              = Ok(QInt(Tier(sc_result.year.score - sc_property.year_built, 5, 15, 30,
                             << 100, 80, 60, 40 >>)))
       /\ sc_property.commute_time \in {15} => sc_result.components.commute.v = QInt(100)
       /\ sc_property.commute_time \in {16, 30} => sc_result.components.commute.v = QInt(80)
       /\ sc_property.commute_time \in {31, 45} => sc_result.components.commute.v = QInt(50)
       /\ sc_property.commute_time \in {46} => sc_result.components.commute.v = QInt(20)

\* C13 happens: a commute of 31 minutes and an age of exactly 30 years were
\* scored 50 and 60.
C13_Witness ==
    /\ sc_result.score.called
    /\ sc_property.commute_time = 31
    /\ sc_result.year.score - sc_property.year_built = 30
    /\ sc_result.components.commute.v = QInt(50)
    /\ sc_result.components.property_age.v = QInt(60)

\* C14: calculate_match_score is, rounded to 2 decimals,
\* 0.30 price_match + 0.20 bedroom + 0.15 school_rating + 0.15 commute
\* + 0.10 property_age + 0.10 amenities, with school_rating / 10 * 100 and
\* (number of true amenity flags) / 3 * 100 for the two sub-scores; the
\* configured weights sum to 1.0 and six sub-scores of 100 give exactly 100.
\* (SpecScore)
C14_WeightedSum ==
    /\ SCORING_WEIGHTS.price_match + SCORING_WEIGHTS.bedroom
       + SCORING_WEIGHTS.school_rating + SCORING_WEIGHTS.commute
       + SCORING_WEIGHTS.property_age + SCORING_WEIGHTS.amenities = 100
    /\ Scored
       => LET c == sc_result.components
              flags == BoolInt(sc_property.has_pool) + BoolInt(sc_property.has_garage)
                       + BoolInt(sc_property.has_garden)
          IN  /\ sc_result.score.v
                     = QRound(QAdd(QScale(30, c.price_match.v),
                              QAdd(QScale(20, c.bedroom.v),
                              QAdd(QScale(15, c.school_rating.v),
                              QAdd(QScale(15, c.commute.v),
                              QAdd(QScale(10, c.property_age.v),
                                   QScale(10, c.amenities.v)))))))
              /\ c.school_rating.v = QScale(100, QFrac(sc_property.school_rating, 100))
              /\ c.amenities.v = QScale(100, QFrac(flags, 3))
              /\ (\A k \in ComponentNames : c[k].v = QInt(100))
                 => sc_result.score.v = 100 * 100

\* C14 happens: a property with all six sub-scores at 100 was scored 100.
C14_Witness ==
    /\ Scored
    /\ \A k \in ComponentNames : sc_result.components[k] = Ok(QInt(100))
    /\ sc_result.score.v = 100 * 100

\* generate_reasoning was called and returned; its clauses.
Reasoned == sc_result.reasoning.called /\ sc_result.reasoning.ok
Clauses == sc_result.reasoning.v

\* The order of the clause categories and of the amenity words.
CategoryOrder == << "budget", "bedrooms", "school", "commute", "age", "amenities",
                    "location" >>
AmenityOrder == << "pool", "garage", "garden" >>
PositionIn(order, x) == CHOOSE i \in DOMAIN order : order[i] = x
InOrder(list, order) ==
    /\ \A k \in DOMAIN list : list[k] \in Elements(order)
    /\ \A i, j \in DOMAIN list : i < j => PositionIn(order, list[i]) < PositionIn(order, list[j])

\* The amenity words of the flags of sc_property that are true.
TrueFlags ==
    (IF sc_property.has_pool THEN {"pool"} ELSE {})
    \cup (IF sc_property.has_garage THEN {"garage"} ELSE {})
    \cup (IF sc_property.has_garden THEN {"garden"} ELSE {})

\* C18: the clauses of generate_reasoning come in the order budget, bedrooms,
\* school rating, commute, property age, amenities, location, whichever of them
\* are skipped; the amenities clause lists exactly the true flags, in the order
\* pool, garage, garden.  (SpecScore)
C18_ClauseOrder ==
    Reasoned
    => /\ InOrder([k \in DOMAIN Clauses |-> Clauses[k].cat], CategoryOrder)
       /\ Clauses[1].cat = "budget"
       /\ \A k \in DOMAIN Clauses :
              Clauses[k].cat = "amenities"
              => /\ InOrder(Clauses[k].items, AmenityOrder)
                 /\ Elements(Clauses[k].items) = TrueFlags

\* C18 happens: the bedrooms clause was skipped, the school and commute clauses
\* both came, and the amenities clause lists two of the three flags.
C18_Witness ==
    /\ Reasoned
    /\ ~ \E k \in DOMAIN Clauses : Clauses[k].cat = "bedrooms"
    /\ \E i, j \in DOMAIN Clauses :
          i < j /\ Clauses[i].cat = "school" /\ Clauses[j].cat = "commute"
    /\ \E k \in DOMAIN Clauses :
          Clauses[k].cat = "amenities" /\ Clauses[k].items = << "pool", "garden" >>
    /\ Clauses[Len(Clauses)].cat = "location"

\* The wording of the clause of a category, "" when the clause is absent.
TierOf(cat) ==
    IF \E k \in DOMAIN Clauses : Clauses[k].cat = cat
    THEN Clauses[CHOOSE k \in DOMAIN Clauses : Clauses[k].cat = cat].tier
    ELSE ""

\* C19: in the text of generate_reasoning the school clause is "Excellent" iff
\* school_rating >= 8.0, "Good" iff 6.0 <= school_rating < 8.0 and absent below
\* 6.0; the commute clause is "Short" iff commute_time <= 15, "Reasonable" iff
\* 15 < commute_time <= 30 and absent above 30; the age clause has its three
\* tiers at age <= 5, <= 15 and <= 30 and is absent above 30; the bedroom clause
\* is present iff bedrooms >= min_bedrooms; the amenities clause is present iff
\* a flag is true.  (SpecScore)
C19_ClauseThresholds ==
    Reasoned
    => /\ TierOf("school")
              = (IF sc_property.school_rating >= 80 THEN "excellent"
                 ELSE IF sc_property.school_rating >= 60 THEN "good" ELSE "")
       /\ TierOf("commute")
              = Tier(sc_property.commute_time, 15, 30, 30,
                     << "short", "reasonable", "", "" >>)
       /\ TierOf("age")
              = Tier(sc_result.year.reasoning - sc_property.year_built, 5, 15, 30,
                     << "recent", "modern", "established", "" >>)
       /\ (TierOf("bedrooms") # "") = (sc_property.bedrooms >= MinBedroomsUsed)
       /\ (TierOf("amenities") # "") = (TrueFlags # {})

\* C19 happens: a school rating of exactly 6.0 got the "Good" clause and a
\* commute of 31 minutes got none.
C19_Witness ==
    /\ Reasoned
    /\ sc_property.school_rating = 60 /\ TierOf("school") = "good"
    /\ sc_property.commute_time = 31 /\ TierOf("commute") = ""

\* The two fields the scoring loop adds to a property.
AddedFields == {"match_score", "reasoning"}

\* rec is the property prop with the two added fields and nothing else changed.
ScoredCopyOf(rec, prop) ==
    /\ DOMAIN rec = DOMAIN prop \cup AddedFields
    /\ \A f \in DOMAIN prop : rec[f] = prop[f]

\* Every recommendation of the answer is the scored copy of a property of the
\* batch, no two of the same one, and nothing is missing before truncation.
ScoredFromBatch ==
    /\ \A k \in DOMAIN properties : "predicted_price" \in DOMAIN properties[k]
    /\ Succeeded
       => /\ \A i \in DOMAIN response.recommendations :
                 \E k \in DOMAIN properties :
                     ScoredCopyOf(response.recommendations[i], properties[k])
          /\ \A i, j \in DOMAIN response.recommendations :
                 i # j => response.recommendations[i].id # response.recommendations[j].id
          /\ call.num_recommendations >= Len(properties)
             => Len(response.recommendations) = Len(properties)

\* C16: get_recommendations makes one scored record per generated property, equal
\* to the property (predicted_price included, set before scoring) in every field
\* but the added match_score and reasoning; scoring leaves the generated records
\* as they are, and the recommendations have pairwise distinct ids.  (Spec)
C16_ScoringFrame ==
    [][ /\ (pc = "generating" /\ pc' = "idle") => properties' = properties
        /\ ScoredFromBatch'
      ]_vars

\* C16 happens: an answer holds the whole batch of three, scored and reordered.
C16_Witness ==
    /\ Succeeded
    /\ Len(properties) = 3 /\ Len(response.recommendations) = 3
    /\ response.recommendations[1].id # 1
    /\ \A i \in 1 .. 3 : \E k \in 1 .. 3 :
          ScoredCopyOf(response.recommendations[i], properties[k])

\* C20: for every count >= 0 generate_properties(count) returns count properties
\* with the ids 1, 2, ..., count in list order, the property at 0-based index i
\* having image PROPERTY_IMAGES[i mod 12]; with count omitted it returns 20.
\* (Spec)
C20_IdsAndImages ==
    /\ \A k \in DOMAIN properties :
           /\ properties[k].id = k
           /\ properties[k].image_url = (k - 1) % 12
    /\ (pc = "idle" /\ call.route \in {"recommend", "service", "properties"}
           /\ call.property_count >= 0)
       => Len(properties) = call.property_count
    /\ (pc = "idle" /\ call.route = "properties")
       => /\ response.properties = properties
          /\ response.count = 20 /\ Len(response.properties) = 20

\* C20 happens: generate_properties() returned 20 properties, the images
\* starting over at the thirteenth.
C20_Witness ==
    /\ pc = "idle" /\ call.route = "properties"
    /\ Len(response.properties) = 20
    /\ response.properties[12].image_url = 11
    /\ response.properties[13].image_url = 0
    /\ response.properties[20].id = 20 /\ response.properties[20].image_url = 7

\* Both calls of calculate_match_score, and of generate_reasoning, were made.
ScoredTwice == sc_result.score.called /\ sc_result.again.score.called
ReasonedTwice == sc_result.reasoning.called /\ sc_result.again.reasoning.called

SharedCore ==
    << model_loader.model, model_loader.model_loaded,
       price_predictor.model, price_predictor.model_loaded >>

\* The list a thread builds holds only properties generated for its request, and
\* what it answers is taken from that list.
OwnBatchOnly ==
    \A h \in Handlers :
        LET thread == handlers.thread[h]
        IN  /\ \A k \in DOMAIN thread.properties :
                   thread.properties[k].generated_for = thread.serial
            /\ \A i \in DOMAIN thread.response.recommendations :
                   /\ thread.response.recommendations[i].generated_for = thread.serial
                   /\ \E k \in DOMAIN thread.properties :
                          ScoredCopyOf(thread.response.recommendations[i],
                                       thread.properties[k])
            /\ \A i \in DOMAIN thread.response.properties :
                   thread.response.properties[i].generated_for = thread.serial

\* C17: once the application is created, no step of any interleaving of
\* /api/recommend, /api/properties and /api/health requests changes the loaded
\* model, the loader's model_loaded or the predictor's model and model_loaded,
\* and every recommendation (and listed property) of an answer comes from the
\* batch generated for that same request, never from an earlier or a
\* concurrent one.  (SpecConcurrent)
C17_NoSharedMutableState ==
    [][ /\ pc = "idle" => SharedCore' = SharedCore
        /\ OwnBatchOnly' ]_vars

\* A request that started after another and was answered with its three
\* recommendations while the other was still in its loop, the model loaded.
C17_Witness ==
    /\ pc = "idle"
    /\ model_loader.model_loaded
    /\ \E a, b \in Handlers :
          LET first == handlers.thread[a]
              second == handlers.thread[b]
          IN  /\ a # b
              /\ first.pc = "generating" /\ first.i > 0
              /\ first.i < first.call.property_count
              /\ second.pc = "done" /\ second.call.route = "recommend"
              /\ second.serial > first.serial
              /\ second.response.success
              /\ Len(second.response.recommendations) = DEFAULT_RECOMMENDATIONS
              /\ \A i \in DOMAIN second.response.recommendations :
                     second.response.recommendations[i].generated_for = second.serial

\* C21: every property returned by generate_properties has 1 <= bedrooms <= 5,
\* 1 <= bathrooms <= bedrooms and bathrooms >= bedrooms - 1,
\* 800 <= square_feet <= 3999, 1950 <= year_built <= 2023,
\* 3000 <= lot_size <= 14999, 4.0 <= school_rating <= 10.0,
\* 5 <= commute_time <= 59, zip_code, city and state from the configured lists
\* and property_type "House".  (SpecGenerate)
C21_FieldRanges ==
    \A k \in DOMAIN response.properties :
        LET p == response.properties[k]
        IN  /\ 1 <= p.bedrooms /\ p.bedrooms <= 5
            /\ 1 <= p.bathrooms /\ p.bathrooms <= p.bedrooms
            /\ p.bathrooms >= p.bedrooms - 1
            /\ 800 <= p.square_feet /\ p.square_feet <= 3999
            /\ 1950 <= p.year_built /\ p.year_built <= 2023
            /\ 3000 <= p.lot_size /\ p.lot_size <= 14999
            /\ 40 <= p.school_rating /\ p.school_rating <= 100
            /\ 5 <= p.commute_time /\ p.commute_time <= 59
            /\ p.zip_code \in Elements(ZIP_CODES)
            /\ p.city \in Elements(CITIES)
            /\ p.state \in Elements(STATES)
            /\ p.property_type = "House"

\* A returned batch with a one-bedroom property whose bathroom draw subtracted
\* one, and a property whose rating was rounded up to 10.0.
C21_Witness ==
    /\ pc = "idle" /\ call.route = "generate"
    /\ \E k \in DOMAIN response.properties :
          /\ response.properties[k].bedrooms = 1
          /\ response.properties[k].bathrooms = 1
          /\ response.properties[k].school_rating = 40
    /\ \E k \in DOMAIN response.properties :
          response.properties[k].school_rating = 100

\* The budget clauses of the returned text.
BudgetClauses == { i \in DOMAIN Clauses : Clauses[i].cat = "budget" }

\* C22: every text generate_reasoning returns has exactly one budget clause, as
\* its first clause, worded by the price relative to the budget (price <= 0.9 *
\* budget: well under; 0.9 * budget < price <= budget: comfortably within;
\* budget < price <= 1.1 * budget: slightly above; price > 1.1 * budget: above
\* budget); so the text is never empty and never the generic "Good match based
\* on your preferences".  (SpecScore)
C22_BudgetClauseFirst ==
    Reasoned =>
        LET price == sc_property.predicted_price
            tier  == Clauses[1].tier
        IN  /\ Len(Clauses) >= 1
            /\ BudgetClauses = {1}
            /\ (tier = "well_under") <=> (price <= 90 * BudgetUsed)
            /\ (tier = "comfortably_within")
                   <=> (90 * BudgetUsed < price /\ price <= 100 * BudgetUsed)
            /\ (tier = "slightly_above")
                   <=> (100 * BudgetUsed < price /\ price <= 110 * BudgetUsed)
            /\ (tier = "above") <=> (price > 110 * BudgetUsed)
            /\ \A i \in DOMAIN Clauses : Clauses[i] # GenericReason

\* A returned text for a property no other block has a clause for: too few
\* bedrooms, low rating, long commute, old, no amenity, no city.
C22_Witness ==
    /\ Reasoned
    /\ sc_property.bedrooms < MinBedroomsUsed
    /\ sc_property.school_rating < 60
    /\ sc_property.commute_time > 30
    /\ sc_result.year.reasoning - sc_property.year_built > 30
    /\ TrueFlags = {}
    /\ sc_property.city = ""
    /\ Len(Clauses) = 1
    /\ Clauses[1].cat = "budget"

\* An answer of /api/health directly follows or precedes a successful answer of
\* /api/recommend and the two report the same flag.
ReportsAgreeInStep ==
    /\ (response.route = "health" /\ response'.route = "recommend" /\ response'.success)
           => response'.model_used = response.model_loaded
    /\ (response.route = "recommend" /\ response.success /\ response'.route = "health")
           => response'.model_loaded = response.model_used

\* C23 as stated: after create_app, whatever /api/health and /api/recommend
\* requests and further load_model calls on the shared loader were made,
\* /api/health reports as model_loaded what /api/recommend reports as
\* model_used.  (SpecReload)
C23_ReportsAgreeAfterReloads ==
    [][ReportsAgreeInStep]_vars

\* C23: after create_app, by any sequence of /api/health and /api/recommend
\* requests, and as long as load_model was not called again on the shared
\* loader, /api/health reports as model_loaded what /api/recommend reports as
\* model_used.  (SpecReload)
C23_ReportsAgreeWithoutReload ==
    [][ loading'.calls = 0 => ReportsAgreeInStep ]_vars

\* With the model loaded and never reloaded, a successful answer of
\* /api/recommend that reports model_used = TRUE, one of its predict calls
\* having fallen back.
C23_Witness ==
    /\ pc = "idle"
    /\ loading.calls = 0
    /\ model_loader.model_loaded
    /\ response.route = "recommend" /\ response.success
    /\ response.model_used
    /\ \E k \in DOMAIN predict_log : predict_log[k].via = "fallback"

\* The last element of a non-empty list.
Last(list) == list[Len(list)]

\* What holds when a load_model call returns: loading' is the call, model_file
\* the file it read, model_loader the loader before and model_loader' after.
LoadModelReturns ==
    LET methods == LoadingMethods(model_file.joblib_available)
        tried   == loading'.tried
        result  == loading'.result
    IN  /\ result = model_loader'.model_loaded
        /\ model_loader'.model_loaded => model_loader'.model \in AllMethods
        /\ Len(tried) <= Len(methods)
        /\ \A k \in DOMAIN tried : tried[k] = methods[k]
        /\ \A k \in DOMAIN tried :
               k < Len(tried) => model_file.load[tried[k]] # "model"
        /\ result => /\ tried # << >>
                     /\ model_file.load[Last(tried)] = "model"
                     /\ model_loader'.model = Last(tried)
        /\ ~result => /\ model_file.exists => tried = methods
                      /\ \A k \in DOMAIN tried : model_file.load[tried[k]] # "model"
                      /\ model_loader'.model = model_loader.model

\* C24: after any sequence of load_model calls, each call returns True iff
\* model_loaded is True when it returns; model_loaded = True implies that the
\* stored model is not None and has predict; the strategies are tried in the
\* order joblib, pickle with class workaround, pickle, the first that yields an
\* object with predict wins and the later ones are not attempted; a strategy
\* that raises or yields an object without predict never replaces the stored
\* model.  (SpecLoader)
C24_LoaderContract ==
    [][ loading'.calls = loading.calls + 1 => LoadModelReturns ]_vars

\* A call that tried all three strategies, one of them yielding an object
\* without predict, and failed, on a loader that keeps the model of an earlier
\* call.
C24_Witness ==
    /\ loading.calls >= 2
    /\ ~loading.result
    /\ Len(loading.tried) = 3
    /\ \E m \in AllMethods : model_file.exists /\ model_file.load[m] = "no_predict"
    /\ model_loader.model \in AllMethods
    /\ ~model_loader.model_loaded

\* C25: for every property and preferences, in the same year,
\* app.calculate_match_score gives what ScoringService.calculate_match_score
\* gives and app.generate_reasoning what ScoringService.generate_reasoning
\* gives; and on the same generated batch the legacy /api/recommend handler
\* returns the same ordered top-3 list as get_recommendations with the default
\* counts.  (SpecLegacy)
C25_LegacyAgrees ==
    /\ (legacy.score.called /\ sc_result.score.called)
           => legacy.score = sc_result.score
    /\ (legacy.reasoning.called /\ sc_result.reasoning.called)
           => legacy.reasoning = sc_result.reasoning
    /\ (legacy.recommend.called /\ legacy.get_recommendations.called)
           => /\ legacy.recommend.ok = legacy.get_recommendations.ok
              /\ legacy.recommend.v.recommendations
                     = legacy.get_recommendations.v.recommendations

\* Both modules scored the property, and both ranked a batch whose two best
\* properties have the same score, returning three recommendations.
C25_Witness ==
    /\ legacy.score.called /\ legacy.score.ok /\ sc_result.score.called
    /\ legacy.reasoning.called /\ legacy.reasoning.ok /\ sc_result.reasoning.called
    /\ legacy.recommend.called /\ legacy.recommend.ok
    /\ legacy.get_recommendations.called
    /\ Len(legacy.recommend.v.recommendations) = 3
    /\ legacy.recommend.v.recommendations[1].match_score
           = legacy.recommend.v.recommendations[2].match_score
    /\ legacy.recommend.v.recommendations[1].id
           < legacy.recommend.v.recommendations[2].id

====
